---- MODULE Spec2Model ----
(***************************************************************************)
(* Model of the codeforge data-model validation pipeline:                  *)
(*   DataModelParser (core/data-model-parser.ts): parseFromFile,           *)
(*     parseFromJson, parseFromYaml, validateAndParse,                     *)
(*     validateBusinessRules                                               *)
(*   data-model.schema.json, as applied by Ajv({allErrors: true})          *)
(*   ValidateCommand (cli/commands/validate.ts): validateDataModel and     *)
(*     the four passes it runs on a loaded model                           *)
(* and of the generation pipeline:                                         *)
(*   OpenAPIGenerator, AsyncAPIGenerator and NestJSGenerator: generate()   *)
(*     and the documents and file lists it builds                          *)
(*   GenerateCommand and PreviewCommand: execute, from the loading of the  *)
(*     model to the generators it calls and the files it writes.           *)
(*                                                                         *)
(* Strings that the code inspects character by character (names, the       *)
(* version) are sequences of one-character strings, so that the regular    *)
(* expressions of the schema and of the naming checks are computed.        *)
(***************************************************************************)
EXTENDS Integers, Sequences, FiniteSets, TLC

(***************************************************************************)
(* Bounds of the explored inputs.                                          *)
(***************************************************************************)
MaxEntities == 2
MaxVariedFields == 2

VARIABLES
  input,        \* the file handed to the command: exists, ext, wellFormed, data
  strict,       \* options.strict
  pc,           \* position in ValidateCommand.validateDataModel and the loader
  calls,        \* the validation stages entered so far, in order
  loaderErrors, \* errors[] of DataModelParser.validateBusinessRules
  thrown,       \* the Error propagating out of the loader, if any
  result,       \* results.model of the command: valid, errors, warnings
  configResult, \* results.config of the command: valid, errors, warnings
  config,       \* the ProjectConfig GenerateCommand reads from options.config
  options,      \* the generation type and options.dryRun of GenerateCommand
  openapi,      \* what OpenAPIGenerator.generate built and returned
  asyncapi,     \* what AsyncAPIGenerator.generate built and returned
  backend,      \* what NestJSGenerator.generate built and returned
  exception,    \* the error raised inside a generator's try block, if any
  written       \* the files written (by preview: collected for display), in order

genVars == <<config, options, openapi, asyncapi, backend, exception, written>>

vars == <<input, strict, pc, calls, loaderErrors, thrown, result, configResult, genVars>>

(***************************************************************************)
(* Characters and the regular expressions of schema and naming checks.     *)
(***************************************************************************)
UpperChars ==
  {"A","B","C","D","E","F","G","H","I","J","K","L","M",
   "N","O","P","Q","R","S","T","U","V","W","X","Y","Z"}

LowerChars ==
  {"a","b","c","d","e","f","g","h","i","j","k","l","m",
   "n","o","p","q","r","s","t","u","v","w","x","y","z"}

DigitChars == {"0","1","2","3","4","5","6","7","8","9"}

\* /^[A-Z][a-zA-Z0-9]*$/
IsPascalCase(s) ==
  /\ Len(s) >= 1
  /\ s[1] \in UpperChars
  /\ \A i \in 2..Len(s) : s[i] \in UpperChars \cup LowerChars \cup DigitChars

\* a variant that takes lower-case letters and digits only: /^[a-z][a-z0-9]*$/
IsCamelCaseLowerOnly(s) ==
  /\ Len(s) >= 1
  /\ s[1] \in LowerChars
  /\ \A i \in 2..Len(s) : s[i] \in LowerChars \cup DigitChars

\* /^[a-z][a-zA-Z0-9]*$/
IsCamelCase(s) ==
  /\ Len(s) >= 1
  /\ s[1] \in LowerChars
  /\ \A i \in 2..Len(s) : s[i] \in UpperChars \cup LowerChars \cup DigitChars

\* /^[A-Z][A-Z0-9_]*$/
IsUpperCase(s) ==
  /\ Len(s) >= 1
  /\ s[1] \in UpperChars
  /\ \A i \in 2..Len(s) : s[i] \in UpperChars \cup DigitChars \cup {"_"}

\* /^\d+\.\d+\.\d+$/ : exactly two dots, splitting three non-empty digit runs
IsSemver(s) ==
  LET dots == {i \in 1..Len(s) : s[i] = "."}
  IN /\ Cardinality(dots) = 2
     /\ \A i \in 1..Len(s) : s[i] \in DigitChars \cup {"."}
     /\ 1 \notin dots
     /\ Len(s) \notin dots
     /\ \A i \in dots : (i + 1) \notin dots

(***************************************************************************)
(* Values of a parsed document.  An optional property is a record          *)
(* [present, value]; JavaScript truthiness of an optional string is        *)
(* "present and not empty", of an optional number "present and not 0".     *)
(***************************************************************************)
None == [present |-> FALSE, value |-> <<>>]

Some(v) == [present |-> TRUE, value |-> v]

NoNum == [present |-> FALSE, value |-> 0]

TruthyStr(opt) == opt.present /\ opt.value # <<>>

TruthyNum(opt) == opt.present /\ opt.value # 0

\* core/types.ts ValidationRules (the properties the validators read)
NoValidation ==
  [present |-> FALSE, minLength |-> NoNum, maxLength |-> NoNum,
   min |-> NoNum, max |-> NoNum]

Validation(minLength, maxLength, min, max) ==
  [present |-> TRUE, minLength |-> minLength, maxLength |-> maxLength,
   min |-> min, max |-> max]

\* the value of dataType.enum: absent, a JSON array of strings, or a JSON
\* string (elems are then its characters, so that enum[0] is its first one)
NoEnum == [kind |-> "absent", elems |-> <<>>]

EnumArray(names) == [kind |-> "array", elems |-> names]

EnumString(chars) ==
  [kind |-> "string", elems |-> [i \in 1..Len(chars) |-> <<chars[i]>>]]

\* the value of dataType.format: absent, or a string
NoFormat == [present |-> FALSE, value |-> ""]

\* dataType.items as the type mappers read it: its type and its enum.  An
\* item that is an array has no items of its own
ItemType(type, enum) == [type |-> type, enum |-> enum, hasItems |-> FALSE]

\* core/types.ts DataType, without format and without the required flag;
\* items, when it is set, is {type: 'object'} (it is not read when hasItems
\* is false)
DataType(type, enum, validation, description, hasItems) ==
  [type |-> type, format |-> NoFormat, required |-> FALSE, enum |-> enum,
   validation |-> validation, description |-> description,
   hasItems |-> hasItems, items |-> ItemType("object", NoEnum)]

\* the same DataType with items set to the given item type
WithItems(dataType, items) ==
  [dataType EXCEPT !.hasItems = TRUE, !.items = items]

\* the same DataType with format set
WithFormat(dataType, format) ==
  [dataType EXCEPT !.format = [present |-> TRUE, value |-> format]]

\* the same DataType with required: true
Required(dataType) == [dataType EXCEPT !.required = TRUE]

PlainType(type) == DataType(type, NoEnum, NoValidation, None, FALSE)

\* core/types.ts Relationship
NoRelationship ==
  [present |-> FALSE, type |-> "none", target |-> <<>>,
   foreignKey |-> None, joinTable |-> None]

Relationship(type, target, foreignKey, joinTable) ==
  [present |-> TRUE, type |-> type, target |-> target,
   foreignKey |-> foreignKey, joinTable |-> joinTable]

\* core/types.ts EntityField
Field(name, dataType, relationship, isPrimaryKey, isGenerated) ==
  [name |-> name, dataType |-> dataType, relationship |-> relationship,
   isPrimaryKey |-> isPrimaryKey, isGenerated |-> isGenerated]

\* core/types.ts Entity, without the timestamps flag
Entity(name, fields) == [name |-> name, fields |-> fields, timestamps |-> FALSE]

\* the same Entity with timestamps: true
WithTimestamps(entity) == [entity EXCEPT !.timestamps = TRUE]

\* core/types.ts EnumDefinition
EnumDefinition(name, values) == [name |-> name, values |-> values]

\* core/types.ts DataModel; kind is the JSON type of the top-level value
DataModel(hasName, version, entities, enums) ==
  [kind |-> "object", hasName |-> hasName, version |-> version,
   entities |-> entities, enums |-> enums]

NotAnObject ==
  [kind |-> "array", hasName |-> FALSE, version |-> None,
   entities |-> None, enums |-> None]

(***************************************************************************)
(* Sequence helpers.                                                       *)
(***************************************************************************)
\* the concatenation F(1) \o ... \o F(n)
ConcatMap(n, F(_)) ==
  LET acc[i \in 0..n] == IF i = 0 THEN <<>> ELSE acc[i - 1] \o F(i)
  IN acc[n]

Range(s) == {s[i] : i \in 1..Len(s)}

\* number of positions of s holding x
Count(s, x) == Cardinality({i \in 1..Len(s) : s[i] = x})

(***************************************************************************)
(* Schema Validator: data-model.schema.json under Ajv with allErrors, so   *)
(* every violated keyword yields one error {instancePath, message}.  The   *)
(* instance path /entities/i/fields/j/key is the record [e, f, n, key]     *)
(* (n the index into enums; 0 where a level does not apply).               *)
(***************************************************************************)
SchemaError(e, f, n, key, message) ==
  [e |-> e, f |-> f, n |-> n, key |-> key, message |-> message]

DataTypeKinds ==
  {"string", "number", "boolean", "date", "array", "object", "enum"}

Formats ==
  {"email", "url", "uuid", "date", "datetime", "time", "int32", "int64",
   "float", "double", "binary"}

RelationshipTypes == {"oneToOne", "oneToMany", "manyToOne", "manyToMany"}

\* definitions/ValidationRules: minLength and maxLength have minimum 0
ValidationRulesErrors(e, f, v) ==
  (IF v.minLength.present /\ v.minLength.value < 0
     THEN <<SchemaError(e, f, 0, "dataType/validation/minLength", "must be >= 0")>>
     ELSE <<>>)
  \o
  (IF v.maxLength.present /\ v.maxLength.value < 0
     THEN <<SchemaError(e, f, 0, "dataType/validation/maxLength", "must be >= 0")>>
     ELSE <<>>)

\* definitions/DataType
DataTypeErrors(e, f, dt) ==
  (IF dt.type \notin DataTypeKinds
     THEN <<SchemaError(e, f, 0, "dataType/type",
                        "must be equal to one of the allowed values")>>
     ELSE <<>>)
  \o
  (IF dt.format.present /\ dt.format.value \notin Formats
     THEN <<SchemaError(e, f, 0, "dataType/format",
                        "must be equal to one of the allowed values")>>
     ELSE <<>>)
  \o
  (IF dt.enum.kind \notin {"absent", "array"}
     THEN <<SchemaError(e, f, 0, "dataType/enum", "must be array")>>
     ELSE <<>>)
  \o
  (IF dt.validation.present
     THEN ValidationRulesErrors(e, f, dt.validation)
     ELSE <<>>)

\* definitions/Relationship
RelationshipErrors(e, f, rel) ==
  IF rel.type \notin RelationshipTypes
    THEN <<SchemaError(e, f, 0, "relationship/type",
                       "must be equal to one of the allowed values")>>
    ELSE <<>>

\* definitions/EntityField
EntityFieldErrors(e, f, field) ==
  (IF ~IsCamelCase(field.name)
     THEN <<SchemaError(e, f, 0, "name", "must match pattern")>>
     ELSE <<>>)
  \o DataTypeErrors(e, f, field.dataType)
  \o (IF field.relationship.present
        THEN RelationshipErrors(e, f, field.relationship)
        ELSE <<>>)

\* definitions/Entity
EntityErrors(e, entity) ==
  (IF ~IsPascalCase(entity.name)
     THEN <<SchemaError(e, 0, 0, "name", "must match pattern")>>
     ELSE <<>>)
  \o
  (IF Len(entity.fields) < 1
     THEN <<SchemaError(e, 0, 0, "fields", "must NOT have fewer than 1 items")>>
     ELSE <<>>)
  \o ConcatMap(Len(entity.fields),
               LAMBDA f : EntityFieldErrors(e, f, entity.fields[f]))

\* definitions/EnumDefinition
EnumDefinitionErrors(n, enumDef) ==
  (IF ~IsPascalCase(enumDef.name)
     THEN <<SchemaError(0, 0, n, "name", "must match pattern")>>
     ELSE <<>>)
  \o
  (IF Len(enumDef.values) < 1
     THEN <<SchemaError(0, 0, n, "values", "must NOT have fewer than 1 items")>>
     ELSE <<>>)

\* the root schema: validate(data) is true iff this list is empty, and
\* validate.errors is this list
SchemaErrors(data) ==
  IF data.kind # "object"
    THEN <<SchemaError(0, 0, 0, "", "must be object")>>
    ELSE
      (IF ~data.hasName
         THEN <<SchemaError(0, 0, 0, "", "must have required property 'name'")>>
         ELSE <<>>)
      \o
      (IF ~data.version.present
         THEN <<SchemaError(0, 0, 0, "", "must have required property 'version'")>>
         ELSE <<>>)
      \o
      (IF ~data.entities.present
         THEN <<SchemaError(0, 0, 0, "", "must have required property 'entities'")>>
         ELSE <<>>)
      \o
      (IF data.version.present /\ ~IsSemver(data.version.value)
         THEN <<SchemaError(0, 0, 0, "version", "must match pattern")>>
         ELSE <<>>)
      \o
      (IF data.entities.present /\ Len(data.entities.value) < 1
         THEN <<SchemaError(0, 0, 0, "entities", "must NOT have fewer than 1 items")>>
         ELSE <<>>)
      \o
      (IF data.entities.present
         THEN ConcatMap(Len(data.entities.value),
                        LAMBDA e : EntityErrors(e, data.entities.value[e]))
         ELSE <<>>)
      \o
      (IF data.enums.present
         THEN ConcatMap(Len(data.enums.value),
                        LAMBDA n : EnumDefinitionErrors(n, data.enums.value[n]))
         ELSE <<>>)

(***************************************************************************)
(* Messages of the business-rule passes.  A message is its template (kind) *)
(* with the interpolated entity name, field name and argument, e.g.        *)
(*   Entity ${entity}.${field}: relationship target '${arg}' does not exist*)
(***************************************************************************)
Msg(kind, entity, field, arg) ==
  [kind |-> kind, entity |-> entity, field |-> field, arg |-> arg]

\* a fixed piece of text interpolated into a message (a relationship type)
Text(s) == <<s>>

\* data.entities and data.enums of a document (enums?. ... || [])
EntitiesOf(data) == IF data.entities.present THEN data.entities.value ELSE <<>>

EnumsOf(data) == IF data.enums.present THEN data.enums.value ELSE <<>>

(***************************************************************************)
(* DataModelParser.validateBusinessRules: the three loops that fill the    *)
(* local errors[] list.                                                    *)
(***************************************************************************)
\* first loop: entityNames.has(entity.name) before entityNames.add
LoaderDuplicateEntityErrors(entities) ==
  ConcatMap(Len(entities), LAMBDA i :
    IF \E j \in 1..(i - 1) : entities[j].name = entities[i].name
      THEN <<Msg("Duplicate entity name", entities[i].name, <<>>, <<>>)>>
      ELSE <<>>)

\* the entityNames set the second loop reads: complete after the first loop
LoaderEntityNames(entities) == {entities[i].name : i \in 1..Len(entities)}

\* a variant that does not accept a reference of an entity to itself
LoaderRelationshipErrorsNoSelf(entityNames, entity, field) ==
  LET rel == field.relationship
  IN IF ~rel.present THEN <<>>
     ELSE
       (IF rel.target \notin (entityNames \ {entity.name})
          THEN <<Msg("relationship target does not exist",
                     entity.name, field.name, rel.target)>>
          ELSE <<>>)
       \o
       (IF rel.type \in {"manyToOne", "oneToOne"} /\ ~TruthyStr(rel.foreignKey)
          THEN <<Msg("relationship requires foreignKey",
                     entity.name, field.name, Text(rel.type))>>
          ELSE <<>>)
       \o
       (IF rel.type = "manyToMany" /\ ~TruthyStr(rel.joinTable)
          THEN <<Msg("manyToMany relationship requires joinTable",
                     entity.name, field.name, <<>>)>>
          ELSE <<>>)

\* second loop, body of "if (field.relationship)"
LoaderRelationshipErrors(entityNames, entity, field) ==
  LET rel == field.relationship
  IN IF ~rel.present THEN <<>>
     ELSE
       (IF rel.target \notin entityNames
          THEN <<Msg("relationship target does not exist",
                     entity.name, field.name, rel.target)>>
          ELSE <<>>)
       \o
       (IF rel.type \in {"manyToOne", "oneToOne"} /\ ~TruthyStr(rel.foreignKey)
          THEN <<Msg("relationship requires foreignKey",
                     entity.name, field.name, Text(rel.type))>>
          ELSE <<>>)
       \o
       (IF rel.type = "manyToMany" /\ ~TruthyStr(rel.joinTable)
          THEN <<Msg("manyToMany relationship requires joinTable",
                     entity.name, field.name, <<>>)>>
          ELSE <<>>)

\* a variant that looks for the primary key in the first field only
LoaderPrimaryKeyErrorsFirstField(entity) ==
  IF Len(entity.fields) = 0 \/ ~entity.fields[1].isPrimaryKey
    THEN <<Msg("must have at least one primary key field", entity.name, <<>>, <<>>)>>
    ELSE <<>>

\* second loop, entity.fields.filter(f => f.isPrimaryKey).length === 0
LoaderPrimaryKeyErrors(entity) ==
  IF \A f \in 1..Len(entity.fields) : ~entity.fields[f].isPrimaryKey
    THEN <<Msg("must have at least one primary key field", entity.name, <<>>, <<>>)>>
    ELSE <<>>

\* second loop, one entity
LoaderEntityErrors(entityNames, entity) ==
  ConcatMap(Len(entity.fields), LAMBDA f :
    LoaderRelationshipErrors(entityNames, entity, entity.fields[f]))
  \o LoaderPrimaryKeyErrors(entity)

\* third loop, one field: enumRef = enum[0] must be truthy, not an enum name,
\* and dataType.enum must not be an array
LoaderEnumErrors(enumNames, entity, field) ==
  LET enum == field.dataType.enum
  IN IF /\ field.dataType.type = "enum"
        /\ enum.kind # "absent"
        /\ ~(enum.kind = "string" /\ enum.elems = <<>>)
        /\ Len(enum.elems) >= 1
        /\ enum.elems[1] # <<>>
        /\ enum.elems[1] \notin enumNames
        /\ enum.kind # "array"
       THEN <<Msg("enum reference does not exist",
                  entity.name, field.name, enum.elems[1])>>
       ELSE <<>>

\* errors[] when the function reaches "if (errors.length > 0)"
LoaderBusinessErrors(data) ==
  LET entities == EntitiesOf(data)
      entityNames == LoaderEntityNames(entities)
      enumNames == {EnumsOf(data)[n].name : n \in 1..Len(EnumsOf(data))}
  IN LoaderDuplicateEntityErrors(entities)
     \o ConcatMap(Len(entities), LAMBDA e :
          LoaderEntityErrors(entityNames, entities[e]))
     \o ConcatMap(Len(entities), LAMBDA e :
          ConcatMap(Len(entities[e].fields), LAMBDA f :
            LoaderEnumErrors(enumNames, entities[e], entities[e].fields[f])))

(***************************************************************************)
(* ValidateCommand: the passes validateDataModel runs on a loaded model.   *)
(* Each pass yields the messages it pushes to result.errors and to         *)
(* result.warnings, in order.                                              *)
(***************************************************************************)
Report(errors, warnings) == [errors |-> errors, warnings |-> warnings]

NoReport == Report(<<>>, <<>>)

Join(r1, r2) == Report(r1.errors \o r2.errors, r1.warnings \o r2.warnings)

\* the concatenation of the reports F(1), ..., F(n)
JoinMap(n, F(_)) ==
  LET acc[i \in 0..n] == IF i = 0 THEN NoReport ELSE Join(acc[i - 1], F(i))
  IN acc[n]

\* validateEntityRelationships, body of "if (field.relationship)"
CommandRelationshipReport(entityNames, entity, field) ==
  LET rel == field.relationship
  IN IF ~rel.present THEN NoReport
     ELSE Report(
       IF rel.target \notin entityNames
         THEN <<Msg("relationship target does not exist",
                    entity.name, field.name, rel.target)>>
         ELSE <<>>,
       (IF rel.type = "manyToMany" /\ ~TruthyStr(rel.joinTable)
          THEN <<Msg("manyToMany relationship should specify joinTable",
                     entity.name, field.name, <<>>)>>
          ELSE <<>>)
       \o
       (IF rel.type \in {"manyToOne", "oneToOne"} /\ ~TruthyStr(rel.foreignKey)
          THEN <<Msg("relationship should specify foreignKey",
                     entity.name, field.name, Text(rel.type))>>
          ELSE <<>>))

validateEntityRelationships(dataModel) ==
  LET entities == dataModel.entities.value
      entityNames == {entities[i].name : i \in 1..Len(entities)}
  IN JoinMap(Len(entities), LAMBDA e :
       JoinMap(Len(entities[e].fields), LAMBDA f :
         CommandRelationshipReport(entityNames, entities[e], entities[e].fields[f])))

\* a variant whose strict mode reports a missing description as an error
validateFieldDataTypeStrictErrors(entityName, field, strictMode) ==
  LET dataType == field.dataType
      v == dataType.validation
  IN Report(
       (IF /\ dataType.type = "enum"
           /\ \/ dataType.enum.kind = "absent"
              \/ dataType.enum.kind # "array"
              \/ Len(dataType.enum.elems) = 0
          THEN <<Msg("enum type must have at least one value",
                     entityName, field.name, <<>>)>>
          ELSE <<>>)
       \o
       (IF /\ dataType.type = "string"
           /\ v.present
           /\ v.minLength.present
           /\ v.maxLength.present
           /\ v.minLength.value > v.maxLength.value
          THEN <<Msg("minLength cannot be greater than maxLength",
                     entityName, field.name, <<>>)>>
          ELSE <<>>)
       \o
       (IF /\ dataType.type = "number"
           /\ v.present
           /\ v.min.present
           /\ v.max.present
           /\ v.min.value > v.max.value
          THEN <<Msg("min cannot be greater than max",
                     entityName, field.name, <<>>)>>
          ELSE <<>>)
       \o
       (IF strictMode /\ ~TruthyStr(dataType.description)
          THEN <<Msg("missing field description", entityName, field.name, <<>>)>>
          ELSE <<>>),
       (IF dataType.type = "array" /\ ~dataType.hasItems
          THEN <<Msg("array type should specify items type",
                     entityName, field.name, <<>>)>>
          ELSE <<>>)
       \o
       (IF /\ strictMode
           /\ dataType.type = "string"
           /\ ~(v.present /\ TruthyNum(v.maxLength))
          THEN <<Msg("string field should have maxLength constraint",
                     entityName, field.name, <<>>)>>
          ELSE <<>>))

validateFieldDataType(entityName, field, strictMode) ==
  LET dataType == field.dataType
      v == dataType.validation
  IN Report(
       (IF /\ dataType.type = "enum"
           /\ \/ dataType.enum.kind = "absent"
              \/ dataType.enum.kind # "array"
              \/ Len(dataType.enum.elems) = 0
          THEN <<Msg("enum type must have at least one value",
                     entityName, field.name, <<>>)>>
          ELSE <<>>)
       \o
       (IF /\ dataType.type = "string"
           /\ v.present
           /\ v.minLength.present
           /\ v.maxLength.present
           /\ v.minLength.value > v.maxLength.value
          THEN <<Msg("minLength cannot be greater than maxLength",
                     entityName, field.name, <<>>)>>
          ELSE <<>>)
       \o
       (IF /\ dataType.type = "number"
           /\ v.present
           /\ v.min.present
           /\ v.max.present
           /\ v.min.value > v.max.value
          THEN <<Msg("min cannot be greater than max",
                     entityName, field.name, <<>>)>>
          ELSE <<>>),
       (IF dataType.type = "array" /\ ~dataType.hasItems
          THEN <<Msg("array type should specify items type",
                     entityName, field.name, <<>>)>>
          ELSE <<>>)
       \o
       (IF strictMode /\ ~TruthyStr(dataType.description)
          THEN <<Msg("missing field description", entityName, field.name, <<>>)>>
          ELSE <<>>)
       \o
       (IF /\ strictMode
           /\ dataType.type = "string"
           /\ ~(v.present /\ TruthyNum(v.maxLength))
          THEN <<Msg("string field should have maxLength constraint",
                     entityName, field.name, <<>>)>>
          ELSE <<>>))

\* validateEntityFields, one iteration of the loop over an entity's fields
CommandFieldReport(entity, f, strictMode) ==
  Join(Report(
         IF \E g \in 1..(f - 1) : entity.fields[g].name = entity.fields[f].name
           THEN <<Msg("duplicate field name", entity.name, <<>>, entity.fields[f].name)>>
           ELSE <<>>,
         <<>>),
       validateFieldDataType(entity.name, entity.fields[f], strictMode))

\* validateEntityFields, the two primary-key checks after the field loop
CommandPrimaryKeyReport(entity) ==
  LET primaryKeys == {f \in 1..Len(entity.fields) : entity.fields[f].isPrimaryKey}
      generatedPrimaryKeys == {f \in primaryKeys : entity.fields[f].isGenerated}
  IN Report(
       (IF Cardinality(primaryKeys) = 0
          THEN <<Msg("must have at least one primary key field", entity.name, <<>>, <<>>)>>
          ELSE <<>>)
       \o
       (IF Cardinality(generatedPrimaryKeys) > 1
          THEN <<Msg("cannot have multiple generated primary keys", entity.name, <<>>, <<>>)>>
          ELSE <<>>),
       <<>>)

validateEntityFields(dataModel, strictMode) ==
  LET entities == dataModel.entities.value
  IN JoinMap(Len(entities), LAMBDA e :
       Join(JoinMap(Len(entities[e].fields), LAMBDA f :
              CommandFieldReport(entities[e], f, strictMode)),
            CommandPrimaryKeyReport(entities[e])))

validateNamingConventions(dataModel, strictMode) ==
  LET entities == dataModel.entities.value
      enums == EnumsOf(dataModel)
  IN Report(<<>>,
       ConcatMap(Len(entities), LAMBDA e :
         (IF ~IsPascalCase(entities[e].name)
            THEN <<Msg("name should be in PascalCase", entities[e].name, <<>>, <<>>)>>
            ELSE <<>>)
         \o
         ConcatMap(Len(entities[e].fields), LAMBDA f :
           IF ~IsCamelCase(entities[e].fields[f].name)
             THEN <<Msg("field name should be in camelCase",
                        entities[e].name, entities[e].fields[f].name, <<>>)>>
             ELSE <<>>))
       \o
       ConcatMap(Len(enums), LAMBDA n :
         (IF ~IsPascalCase(enums[n].name)
            THEN <<Msg("Enum name should be in PascalCase", enums[n].name, <<>>, <<>>)>>
            ELSE <<>>)
         \o
         ConcatMap(Len(enums[n].values), LAMBDA k :
           IF strictMode /\ ~IsUpperCase(enums[n].values[k])
             THEN <<Msg("Enum value should be in UPPER_CASE",
                        enums[n].name, <<>>, enums[n].values[k])>>
             ELSE <<>>)))

(***************************************************************************)
(* ValidateCommand.checkCircularRelationships.                             *)
(***************************************************************************)
\* a variant that follows every relationship type, oneToMany included
GraphTargetsAllTypes(entity) ==
  ConcatMap(Len(entity.fields), LAMBDA f :
    IF entity.fields[f].relationship.present
      THEN <<entity.fields[f].relationship.target>>
      ELSE <<>>)

\* the targets an entity pushes to its adjacency list, in field order
GraphTargets(entity) ==
  ConcatMap(Len(entity.fields), LAMBDA f :
    IF /\ entity.fields[f].relationship.present
       /\ entity.fields[f].relationship.type # "oneToMany"
      THEN <<entity.fields[f].relationship.target>>
      ELSE <<>>)

\* entityGraph.get(node) || [] : entityGraph.set(entity.name, []) makes the
\* last entity of a name the owner of that name's list
Neighbors(entities, node) ==
  LET owners == {e \in 1..Len(entities) : entities[e].name = node}
  IN IF owners = {} THEN <<>>
     ELSE GraphTargets(entities[CHOOSE e \in owners : \A d \in owners : d <= e])

RECURSIVE hasCycleFrom(_, _, _, _, _)

\* hasCycle(node): visited and recursionStack are shared by all calls; the
\* result carries them back to the caller
hasCycle(entities, node, visited, recursionStack) ==
  hasCycleFrom(entities, node, 1, visited \cup {node}, recursionStack \cup {node})

RECURSIVE hasCycleFromNoDelete(_, _, _, _, _)

\* a variant that leaves the node on recursionStack when its loop ends
hasCycleFromNoDelete(entities, node, k, visited, recursionStack) ==
  LET neighbors == Neighbors(entities, node)
  IN IF k > Len(neighbors)
       THEN [found |-> FALSE, visited |-> visited,
             recursionStack |-> recursionStack]
       ELSE
         IF neighbors[k] \notin visited
           THEN LET r == hasCycle(entities, neighbors[k], visited, recursionStack)
                IN IF r.found THEN r
                   ELSE hasCycleFromNoDelete(entities, node, k + 1, r.visited, r.recursionStack)
           ELSE IF neighbors[k] \in recursionStack
                  THEN [found |-> TRUE, visited |-> visited,
                        recursionStack |-> recursionStack]
                  ELSE hasCycleFromNoDelete(entities, node, k + 1, visited, recursionStack)

\* the loop over neighbors from position k on, then recursionStack.delete
hasCycleFrom(entities, node, k, visited, recursionStack) ==
  LET neighbors == Neighbors(entities, node)
  IN IF k > Len(neighbors)
       THEN [found |-> FALSE, visited |-> visited,
             recursionStack |-> recursionStack \ {node}]
       ELSE
         IF neighbors[k] \notin visited
           THEN LET r == hasCycle(entities, neighbors[k], visited, recursionStack)
                IN IF r.found THEN r
                   ELSE hasCycleFrom(entities, node, k + 1, r.visited, r.recursionStack)
           ELSE IF neighbors[k] \in recursionStack
                  THEN [found |-> TRUE, visited |-> visited,
                        recursionStack |-> recursionStack]
                  ELSE hasCycleFrom(entities, node, k + 1, visited, recursionStack)

\* a variant whose final loop stops at the first search that finds a cycle
checkCircularRelationshipsFirstOnly(dataModel) ==
  LET entities == dataModel.entities.value
      loop[i \in 0..Len(entities)] ==
        IF i = 0
          THEN [visited |-> {}, recursionStack |-> {}, warnings |-> <<>>]
          ELSE
            LET prev == loop[i - 1]
                name == entities[i].name
            IN IF name \in prev.visited \/ prev.warnings # <<>> THEN prev
               ELSE LET r == hasCycle(entities, name, prev.visited, prev.recursionStack)
                    IN [visited |-> r.visited,
                        recursionStack |-> r.recursionStack,
                        warnings |->
                          IF r.found
                            THEN Append(prev.warnings,
                                        Msg("Potential circular relationship detected",
                                            name, <<>>, <<>>))
                            ELSE prev.warnings]
  IN Report(<<>>, loop[Len(entities)].warnings)

\* the final loop over dataModel.entities: the warnings pushed, in order
checkCircularRelationships(dataModel) ==
  LET entities == dataModel.entities.value
      loop[i \in 0..Len(entities)] ==
        IF i = 0
          THEN [visited |-> {}, recursionStack |-> {}, warnings |-> <<>>]
          ELSE
            LET prev == loop[i - 1]
                name == entities[i].name
            IN IF name \in prev.visited THEN prev
               ELSE LET r == hasCycle(entities, name, prev.visited, prev.recursionStack)
                    IN [visited |-> r.visited,
                        recursionStack |-> r.recursionStack,
                        warnings |->
                          IF r.found
                            THEN Append(prev.warnings,
                                        Msg("Potential circular relationship detected",
                                            name, <<>>, <<>>))
                            ELSE prev.warnings]
  IN Report(<<>>, loop[Len(entities)].warnings)

\* validateRelationshipLogic has an empty body
validateRelationshipLogic(dataModel) == NoReport

\* ValidateCommand.validateBusinessRules
validateBusinessRules(dataModel) ==
  Join(checkCircularRelationships(dataModel), validateRelationshipLogic(dataModel))

(***************************************************************************)
(* The Error objects of the loader.  message = prefixes ++ items joined by *)
(* sep; origin tells which throw statement created the Error.              *)
(***************************************************************************)
NoError ==
  [raised |-> FALSE, origin |-> "none", prefixes |-> <<>>, sep |-> "", items |-> <<>>]

Error(origin, prefixes, sep, items) ==
  [raised |-> TRUE, origin |-> origin, prefixes |-> prefixes, sep |-> sep,
   items |-> items]

IsYamlExt(ext) == ext \in {".yaml", ".yml"}

\* an Error thrown below parseFromYaml's try block is caught there and
\* thrown again as `Invalid YAML: ${error.message}`
Propagate(ext, err) ==
  IF IsYamlExt(ext)
    THEN [err EXCEPT !.prefixes = <<"Invalid YAML: ">> \o err.prefixes]
    ELSE err

\* the number of lines of the Error's message
MessageLines(err) ==
  1 + Cardinality({i \in 1..Len(err.prefixes) :
                     err.prefixes[i] = "Business rule validation failed:\n"})
    + (IF err.sep = "\n" /\ Len(err.items) > 1 THEN Len(err.items) - 1 ELSE 0)

(***************************************************************************)
(* Actions: ValidateCommand.validateDataModel calling the loader and then  *)
(* its own passes.                                                         *)
(***************************************************************************)
NoResult == [valid |-> FALSE, errors |-> <<>>, warnings |-> <<>>]

Push(res, report) ==
  [res EXCEPT !.errors = res.errors \o report.errors,
              !.warnings = res.warnings \o report.warnings]

\* validateDataModel up to the call of parser.parseFromFile
ValidateDataModel ==
  /\ pc = "validateDataModel"
  /\ IF ~input.exists
       THEN /\ result' = Push(result,
                 Report(<<Msg("Data model file not found", <<>>, <<>>, <<>>)>>, <<>>))
            /\ pc' = "done"
       ELSE /\ result' = result
            /\ pc' = "parseFromFile"
  /\ UNCHANGED <<input, strict, calls, loaderErrors, thrown>>
  /\ UNCHANGED <<configResult, genVars>>

\* parseFromFile: the switch on the extension
ParseFromFile ==
  /\ pc = "parseFromFile"
  /\ IF input.ext = ".json"
       THEN pc' = "parseFromJson" /\ thrown' = thrown
       ELSE IF IsYamlExt(input.ext)
              THEN pc' = "parseFromYaml" /\ thrown' = thrown
              ELSE /\ pc' = "catch"
                   /\ thrown' = Error("format", <<"Unsupported file format: ">>, "",
                                      <<input.ext>>)
  /\ UNCHANGED <<input, strict, calls, loaderErrors, result>>
  /\ UNCHANGED <<configResult, genVars>>

\* parseFromJson: JSON.parse, then validateAndParse
ParseFromJson ==
  /\ pc = "parseFromJson"
  /\ IF ~input.wellFormed
       THEN /\ pc' = "catch"
            /\ thrown' = Error("parse", <<"Invalid JSON: ">>, "", <<"SyntaxError">>)
       ELSE pc' = "validateAndParse" /\ thrown' = thrown
  /\ UNCHANGED <<input, strict, calls, loaderErrors, result>>
  /\ UNCHANGED <<configResult, genVars>>

\* parseFromYaml: yaml.parse, then validateAndParse, all inside one try
ParseFromYaml ==
  /\ pc = "parseFromYaml"
  /\ IF ~input.wellFormed
       THEN /\ pc' = "catch"
            /\ thrown' = Error("parse", <<"Invalid YAML: ">>, "", <<"YAMLParseError">>)
       ELSE pc' = "validateAndParse" /\ thrown' = thrown
  /\ UNCHANGED <<input, strict, calls, loaderErrors, result>>
  /\ UNCHANGED <<configResult, genVars>>

\* a variant that goes on to the business rules whatever the schema says
ValidateAndParseNoShortCircuit ==
  /\ pc = "validateAndParse"
  /\ calls' = Append(calls, "schema")
  /\ pc' = "validateBusinessRules"
  /\ UNCHANGED <<input, strict, loaderErrors, thrown, result>>
  /\ UNCHANGED <<configResult, genVars>>

\* validateAndParse up to the call of validateBusinessRules
ValidateAndParse ==
  /\ pc = "validateAndParse"
  /\ calls' = Append(calls, "schema")
  /\ LET errors == SchemaErrors(input.data)
     IN IF errors # <<>>
          THEN /\ pc' = "catch"
               /\ thrown' = Propagate(input.ext,
                    Error("schema", <<"Data model validation failed: ">>, ", ", errors))
          ELSE pc' = "validateBusinessRules" /\ thrown' = thrown
  /\ UNCHANGED <<input, strict, loaderErrors, result>>
  /\ UNCHANGED <<configResult, genVars>>

\* a variant that throws at the first violated rule
LoaderValidateBusinessRulesFailFast ==
  /\ pc = "validateBusinessRules"
  /\ calls' = Append(calls, "business")
  /\ LET errors == LoaderBusinessErrors(input.data)
     IN IF Len(errors) > 0
          THEN /\ loaderErrors' = <<errors[1]>>
               /\ pc' = "catch"
               /\ thrown' = Propagate(input.ext,
                    Error("business", <<"Business rule validation failed:\n">>, "\n",
                          <<errors[1]>>))
          ELSE loaderErrors' = errors /\ pc' = "loaded" /\ thrown' = thrown
  /\ UNCHANGED <<input, strict, result>>
  /\ UNCHANGED <<configResult, genVars>>

\* DataModelParser.validateBusinessRules, and the return of validateAndParse
LoaderValidateBusinessRules ==
  /\ pc = "validateBusinessRules"
  /\ calls' = Append(calls, "business")
  /\ loaderErrors' = LoaderBusinessErrors(input.data)
  /\ IF Len(loaderErrors') > 0
       THEN /\ pc' = "catch"
            /\ thrown' = Propagate(input.ext,
                 Error("business", <<"Business rule validation failed:\n">>, "\n",
                       loaderErrors'))
       ELSE pc' = "loaded" /\ thrown' = thrown
  /\ UNCHANGED <<input, strict, result>>
  /\ UNCHANGED <<configResult, genVars>>

ValidateEntityRelationships ==
  /\ pc = "loaded"
  /\ result' = Push(result, validateEntityRelationships(input.data))
  /\ pc' = "validateEntityFields"
  /\ UNCHANGED <<input, strict, calls, loaderErrors, thrown>>
  /\ UNCHANGED <<configResult, genVars>>

ValidateEntityFields ==
  /\ pc = "validateEntityFields"
  /\ result' = Push(result, validateEntityFields(input.data, strict))
  /\ pc' = "validateNamingConventions"
  /\ UNCHANGED <<input, strict, calls, loaderErrors, thrown>>
  /\ UNCHANGED <<configResult, genVars>>

ValidateNamingConventions ==
  /\ pc = "validateNamingConventions"
  /\ result' = Push(result, validateNamingConventions(input.data, strict))
  /\ pc' = "validateBusinessRulesCommand"
  /\ UNCHANGED <<input, strict, calls, loaderErrors, thrown>>
  /\ UNCHANGED <<configResult, genVars>>

ValidateBusinessRules ==
  /\ pc = "validateBusinessRulesCommand"
  /\ result' = Push(result, validateBusinessRules(input.data))
  /\ pc' = "setValid"
  /\ UNCHANGED <<input, strict, calls, loaderErrors, thrown>>
  /\ UNCHANGED <<configResult, genVars>>

\* result.valid = result.errors.length === 0
SetValid ==
  /\ pc = "setValid"
  /\ result' = [result EXCEPT !.valid = (Len(result.errors) = 0)]
  /\ pc' = "done"
  /\ UNCHANGED <<input, strict, calls, loaderErrors, thrown>>
  /\ UNCHANGED <<configResult, genVars>>

\* the catch block of validateDataModel; the pushed message embeds the
\* message of the Error held in thrown
Catch ==
  /\ pc = "catch"
  /\ result' = Push(result,
       Report(<<Msg("Data model validation failed", <<>>, <<>>, <<>>)>>, <<>>))
  /\ pc' = "done"
  /\ UNCHANGED <<input, strict, calls, loaderErrors, thrown>>
  /\ UNCHANGED <<configResult, genVars>>

Next ==
  \/ ValidateDataModel
  \/ ParseFromFile
  \/ ParseFromJson
  \/ ParseFromYaml
  \/ ValidateAndParse
  \/ LoaderValidateBusinessRules
  \/ ValidateEntityRelationships
  \/ ValidateEntityFields
  \/ ValidateNamingConventions
  \/ ValidateBusinessRules
  \/ SetValid
  \/ Catch

(***************************************************************************)
(* ValidateCommand.execute and ValidateCommand.validateConfig.             *)
(* The file options.config names is missing, is not JSON, holds the JSON   *)
(* null, or holds an object; project, database and github are optional     *)
(* objects of optional strings, features is read for its presence only.    *)
(***************************************************************************)
ConfigDocument(kind, project, database, features, github) ==
  [kind |-> kind, project |-> project, database |-> database, features |-> features, github |-> github]

\* the checks of validateConfig on a parsed object: what they push
ConfigReport(cfg) ==
  LET error(text) == Msg(text, <<>>, <<>>, <<>>)
      when(cond, text) == IF cond THEN <<error(text)>> ELSE <<>>
      project ==
        IF ~cfg.project.present THEN <<error("Missing required field: project")>>
        ELSE when(~TruthyStr(cfg.project.value.name), "Missing required field: project.name")
             \o (IF ~TruthyStr(cfg.project.value.version)
                   THEN <<error("Missing required field: project.version")>>
                   ELSE when(~IsSemver(cfg.project.value.version.value),
                             "Invalid version format. Expected semver (x.y.z)"))
      database ==
        IF ~cfg.database.present THEN <<error("Missing required field: database")>>
        ELSE IF ~TruthyStr(cfg.database.value.type)
               THEN <<error("Missing required field: database.type")>>
               ELSE when(cfg.database.value.type.value \notin {<<"p", "o", "s", "t", "g", "r", "e", "s", "q", "l">>, <<"m", "y", "s", "q", "l">>, <<"m", "o", "n", "g", "o", "d", "b">>, <<"s", "q", "l", "i", "t", "e">>},
                         "Invalid database type. Supported: postgresql, mysql, mongodb, sqlite")
      github ==
        IF cfg.github.present
          THEN when(~TruthyStr(cfg.github.value.owner), "Missing required field: github.owner")
          ELSE <<>>
  IN Report(project \o database \o github,
            when(~cfg.features, "No features configuration found. Using defaults."))

\* a variant in which a warning makes the document invalid
validateConfigCountingWarnings(cfg, res) ==
  LET pushed == Push(res, ConfigReport(cfg))
  IN CASE cfg.kind = "missing" ->
            Push(res, Report(<<Msg("Configuration file not found", <<>>, <<>>, <<>>)>>, <<>>))
       [] cfg.kind \in {"malformed", "null"} ->
            Push(res, Report(<<Msg("Failed to parse configuration", <<>>, <<>>, <<>>)>>, <<>>))
       [] OTHER -> [pushed EXCEPT !.valid = (Len(pushed.errors) = 0 /\ Len(pushed.warnings) = 0)]

\* validateConfig: the early return on a missing file, the catch block for
\* readJson failing and for the property read on null, and the checks
\* followed by result.valid = result.errors.length === 0
validateConfig(cfg, res) ==
  LET pushed == Push(res, ConfigReport(cfg))
  IN CASE cfg.kind = "missing" ->
            Push(res, Report(<<Msg("Configuration file not found", <<>>, <<>>, <<>>)>>, <<>>))
       [] cfg.kind \in {"malformed", "null"} ->
            Push(res, Report(<<Msg("Failed to parse configuration", <<>>, <<>>, <<>>)>>, <<>>))
       [] OTHER -> [pushed EXCEPT !.valid = (Len(pushed.errors) = 0)]

\* execute up to the call of validateDataModel
ValidateConfig ==
  /\ pc = "validateConfig"
  /\ configResult' = validateConfig(config, configResult)
  /\ pc' = "validateDataModel"
  /\ UNCHANGED <<input, strict, calls, loaderErrors, thrown, result>>
  /\ UNCHANGED genVars

\* execute from the return of validateDataModel: displayResults, then
\* process.exit(1) unless both documents are valid
DisplayResults ==
  /\ pc = "done"
  /\ pc' = IF ~configResult.valid \/ ~result.valid THEN "exited" ELSE "returned"
  /\ UNCHANGED <<input, strict, calls, loaderErrors, thrown, result, configResult>>
  /\ UNCHANGED genVars

ExecuteNext ==
  \/ ValidateConfig
  \/ ValidateDataModel
  \/ ParseFromFile
  \/ ParseFromJson
  \/ ParseFromYaml
  \/ ValidateAndParse
  \/ LoaderValidateBusinessRules
  \/ ValidateEntityRelationships
  \/ ValidateEntityFields
  \/ ValidateNamingConventions
  \/ ValidateBusinessRules
  \/ SetValid
  \/ Catch
  \/ DisplayResults

(***************************************************************************)
(* Generators (generators/openapi-generator.ts, asyncapi-generator.ts,     *)
(* nestjs-generator.ts).  Keys of the generated documents are strings the  *)
(* code builds from entity names, so they are sequences of characters too. *)
(* A JavaScript object used as a map is a function from its keys; an       *)
(* assignment obj[key] = value overwrites what the key held.               *)
(***************************************************************************)
\* String.prototype.toLowerCase on the characters names are made of
toLowerCase(s) ==
  LET upper == <<"A","B","C","D","E","F","G","H","I","J","K","L","M",
                 "N","O","P","Q","R","S","T","U","V","W","X","Y","Z">>
      lower == <<"a","b","c","d","e","f","g","h","i","j","k","l","m",
                 "n","o","p","q","r","s","t","u","v","w","x","y","z">>
  IN [i \in 1..Len(s) |->
        IF s[i] \in UpperChars
          THEN lower[CHOOSE k \in 1..Len(upper) : upper[k] = s[i]]
          ELSE s[i]]

EmptyObject == [k \in {} |-> k]

\* obj[key] = value
Put(obj, key, value) ==
  [k \in (DOMAIN obj) \cup {key} |-> IF k = key THEN value ELSE obj[k]]

\* obj[K(1)] = V(1); ...; obj[K(n)] = V(n)
PutEach(obj, n, K(_), V(_)) ==
  LET acc[i \in 0..n] == IF i = 0 THEN obj ELSE Put(acc[i - 1], K(i), V(i))
  IN acc[n]

\* NestJSGenerator.dataTypeToColumnType
dataTypeToColumnType(dataType) ==
  CASE dataType.type = "string" ->
         IF dataType.format.present /\ dataType.format.value = "uuid" THEN "uuid"
         ELSE IF /\ dataType.validation.present
                 /\ TruthyNum(dataType.validation.maxLength)
                 /\ dataType.validation.maxLength.value <= 255
                THEN "varchar"
                ELSE "text"
    [] dataType.type = "number" ->
         IF dataType.format.present /\ dataType.format.value = "int32" THEN "int"
         ELSE IF dataType.format.present /\ dataType.format.value = "int64"
                THEN "bigint"
                ELSE "decimal"
    [] dataType.type = "boolean" -> "boolean"
    [] dataType.type = "date" ->
         IF dataType.format.present /\ dataType.format.value = "date"
           THEN "date" ELSE "timestamp"
    [] dataType.type = "array" -> "json"
    [] dataType.type = "object" -> "json"
    [] dataType.type = "enum" -> "enum"
    [] OTHER -> "text"

\* a property of a generated schema; "" and None stand for a key that is
\* not set.  items tells whether property.items is set (the item type
\* itself is not modelled), ref is the $ref of an enum reference
Property(description, type, format, minLength, maxLength, minimum, maximum, enum, ref, items) ==
  [description |-> description, type |-> type, format |-> format,
   minLength |-> minLength, maxLength |-> maxLength,
   minimum |-> minimum, maximum |-> maximum,
   enum |-> enum, ref |-> ref, items |-> items]

\* the switch on dataType.type that the OpenAPI and the AsyncAPI mapping
\* share: type, format, enum, $ref and items of the property.  The else-if
\* branch of an enum is taken when dataType.enum is a non-empty string,
\* enum[0] being its first character
SwitchOnType(dataType) ==
  LET format == IF dataType.format.present /\ dataType.format.value # ""
                  THEN dataType.format.value ELSE ""
  IN [type |->
        CASE dataType.type = "string" -> "string"
          [] dataType.type = "number" ->
               IF dataType.format.present /\ dataType.format.value \in {"int32", "int64"}
                 THEN "integer" ELSE "number"
          [] dataType.type = "boolean" -> "boolean"
          [] dataType.type = "date" -> "string"
          [] dataType.type = "array" -> "array"
          [] dataType.type = "object" -> "object"
          [] dataType.type = "enum" ->
               IF dataType.enum.kind = "array" THEN "string" ELSE ""
          [] OTHER -> "",
      format |->
        CASE dataType.type \in {"string", "number"} -> format
          [] dataType.type = "date" -> IF format # "" THEN format ELSE "date-time"
          [] OTHER -> "",
      enum |->
        IF dataType.type = "enum" /\ dataType.enum.kind = "array"
          THEN dataType.enum ELSE NoEnum,
      ref |->
        IF /\ dataType.type = "enum"
           /\ dataType.enum.kind = "string"
           /\ dataType.enum.elems # <<>>
          THEN Some(dataType.enum.elems[1]) ELSE None,
      items |-> dataType.type = "array" /\ dataType.hasItems]

\* OpenAPIGenerator.dataTypeToOpenAPIProperty
dataTypeToOpenAPIProperty(dataType) ==
  LET v == dataType.validation
      switch == SwitchOnType(dataType)
  IN Property(dataType.description, switch.type, switch.format,
       IF dataType.type = "string" /\ v.present /\ TruthyNum(v.minLength)
         THEN v.minLength ELSE NoNum,
       IF dataType.type = "string" /\ v.present /\ TruthyNum(v.maxLength)
         THEN v.maxLength ELSE NoNum,
       IF dataType.type = "number" /\ v.present /\ v.min.present
         THEN v.min ELSE NoNum,
       IF dataType.type = "number" /\ v.present /\ v.max.present
         THEN v.max ELSE NoNum,
       switch.enum, switch.ref, switch.items)

\* AsyncAPIGenerator.dataTypeToAsyncAPIProperty
dataTypeToAsyncAPIProperty(dataType) ==
  LET switch == SwitchOnType(dataType)
  IN Property(dataType.description, switch.type, switch.format,
              NoNum, NoNum, NoNum, NoNum,
              switch.enum, switch.ref, switch.items)

\* obj[K(i)] = V(i) for the i in 1..n, in order, that Keep(i) holds of
PutEachIf(obj, n, Keep(_), K(_), V(_)) ==
  LET acc[i \in 0..n] ==
        IF i = 0 THEN obj
        ELSE IF Keep(i) THEN Put(acc[i - 1], K(i), V(i)) ELSE acc[i - 1]
  IN acc[n]

\* the fixed keys and the pieces of the keys built from entity names
PaginationMetaKey == <<"P", "a", "g", "i", "n", "a", "t", "i", "o", "n", "M", "e", "t", "a">>

\* `Create${entity.name}Dto` and `Update${entity.name}Dto`
CreateDtoKey(name) == <<"C", "r", "e", "a", "t", "e">> \o name \o <<"D", "t", "o">>

UpdateDtoKey(name) == <<"U", "p", "d", "a", "t", "e">> \o name \o <<"D", "t", "o">>

\* a schema of components.schemas: of tells which function built it and
\* name the entity or enum it was built for (both go into its description)
Schema(of, name, properties, required, values) ==
  [of |-> of, name |-> name, properties |-> properties, required |-> required,
   values |-> values, refs |-> {}]

TimestampProperty(description) ==
  Property(Some(<<description>>), "string", "date-time", NoNum, NoNum, NoNum, NoNum,
           NoEnum, None, FALSE)

\* the loop over entity.fields of entityToSchema and entityToCreateDto
SchemaProperties(entity, Keep(_), MapType(_)) ==
  PutEachIf(EmptyObject, Len(entity.fields), Keep,
            LAMBDA f : entity.fields[f].name,
            LAMBDA f : MapType(entity.fields[f].dataType))

SchemaRequired(entity, Keep(_)) ==
  ConcatMap(Len(entity.fields), LAMBDA f :
    IF Keep(f) /\ entity.fields[f].dataType.required
      THEN <<entity.fields[f].name>> ELSE <<>>)

\* the properties of an entity schema, timestamps included
EntityProperties(entity, MapType(_)) ==
  LET properties ==
        SchemaProperties(entity, LAMBDA f : ~entity.fields[f].relationship.present,
                         MapType)
  IN IF entity.timestamps
       THEN Put(Put(properties, <<"c", "r", "e", "a", "t", "e", "d", "A", "t">>, TimestampProperty("Creation timestamp")),
                <<"u", "p", "d", "a", "t", "e", "d", "A", "t">>, TimestampProperty("Last update timestamp"))
       ELSE properties

\* OpenAPIGenerator.entityToSchema
entityToSchema(entity) ==
  Schema("entityToSchema", entity.name,
         EntityProperties(entity, dataTypeToOpenAPIProperty),
         SchemaRequired(entity, LAMBDA f : ~entity.fields[f].relationship.present),
         <<>>)

\* the fields entityToCreateDto does not skip
InCreateDto(entity, f) ==
  ~(\/ entity.fields[f].isGenerated
    \/ entity.fields[f].isPrimaryKey
    \/ entity.fields[f].relationship.present)

\* a variant that skips generated fields and relationships only
InCreateDtoWithKeys(entity, f) ==
  ~(\/ entity.fields[f].isGenerated
    \/ entity.fields[f].relationship.present)

\* OpenAPIGenerator.entityToCreateDto
entityToCreateDto(entity) ==
  Schema("entityToCreateDto", entity.name,
         SchemaProperties(entity, LAMBDA f : InCreateDto(entity, f),
                          dataTypeToOpenAPIProperty),
         SchemaRequired(entity, LAMBDA f : InCreateDto(entity, f)),
         <<>>)

\* a variant that builds its own schema and keeps the required list
entityToUpdateDtoOwnLoop(entity) ==
  Schema("entityToUpdateDto", entity.name,
         SchemaProperties(entity, LAMBDA f : InCreateDtoWithKeys(entity, f),
                          dataTypeToOpenAPIProperty),
         SchemaRequired(entity, LAMBDA f : InCreateDtoWithKeys(entity, f)),
         <<>>)

\* OpenAPIGenerator.entityToUpdateDto: {...createDto, description, required: []}
entityToUpdateDto(entity) ==
  [entityToCreateDto(entity) EXCEPT !.of = "entityToUpdateDto", !.required = <<>>]

\* the schema of an enum definition, the same in both documents
EnumSchema(enumDef) ==
  Schema("enum", enumDef.name, EmptyObject, <<>>, enumDef.values)

\* a schema written out in the generator's source
CommonSchema(key) == Schema("common", key, EmptyObject, <<>>, <<>>)

\* OpenAPIGenerator.generateSchemas: spec.components.schemas afterwards
generateSchemas(dataModel) ==
  LET entities == dataModel.entities.value
      enums == EnumsOf(dataModel)
      afterEntities[i \in 0..Len(entities)] ==
        IF i = 0 THEN EmptyObject
        ELSE Put(Put(Put(afterEntities[i - 1],
                         entities[i].name, entityToSchema(entities[i])),
                     CreateDtoKey(entities[i].name), entityToCreateDto(entities[i])),
                 UpdateDtoKey(entities[i].name), entityToUpdateDto(entities[i]))
      afterEnums ==
        PutEach(afterEntities[Len(entities)], Len(enums),
                LAMBDA n : enums[n].name, LAMBDA n : EnumSchema(enums[n]))
  IN Put(Put(afterEnums, PaginationMetaKey, CommonSchema(PaginationMetaKey)),
         <<"E", "r", "r", "o", "r", "R", "e", "s", "p", "o", "n", "s", "e">>, CommonSchema(<<"E", "r", "r", "o", "r", "R", "e", "s", "p", "o", "n", "s", "e">>))

\* an operation of a path item: its tag, the schema its request body refers
\* to, the schemas its responses refer to and the shared responses it
\* refers to
Operation(action, tag, requestRef, responseRefs, responses) ==
  [action |-> action, tags |-> <<tag>>, requestRef |-> requestRef,
   responseRefs |-> responseRefs, responses |-> responses]

\* OpenAPIGenerator.generateListOperation, generateCreateOperation,
\* generateGetOperation, generateUpdateOperation and generateDeleteOperation
generateOperation(action, entity) ==
  CASE action = "list" ->
         Operation("list", entity.name, None, <<entity.name, PaginationMetaKey>>,
                   {"BadRequest", "InternalServerError"})
    [] action = "create" ->
         Operation("create", entity.name, Some(CreateDtoKey(entity.name)), <<entity.name>>,
                   {"BadRequest", "InternalServerError"})
    [] action = "get" ->
         Operation("get", entity.name, None, <<entity.name>>,
                   {"NotFound", "InternalServerError"})
    [] action = "update" ->
         Operation("update", entity.name, Some(UpdateDtoKey(entity.name)), <<entity.name>>,
                   {"BadRequest", "NotFound", "InternalServerError"})
    [] action = "delete" ->
         Operation("delete", entity.name, None, <<>>,
                   {"NotFound", "InternalServerError"})

\* `/${entity.name.toLowerCase()}s` and `${entityPath}/{id}`
EntityPath(entity) == <<"/">> \o toLowerCase(entity.name) \o <<"s">>

EntityIdPath(entity) == EntityPath(entity) \o <<"/", "{", "i", "d", "}">>

\* a path item: its methods and, in the same order, their operations
PathItem(methods, operations) == [methods |-> methods, operations |-> operations]

\* OpenAPIGenerator.generatePaths: spec.paths afterwards
generatePaths(dataModel) ==
  LET entities == dataModel.entities.value
      paths[i \in 0..Len(entities)] ==
        IF i = 0 THEN EmptyObject
        ELSE Put(Put(paths[i - 1],
                     EntityPath(entities[i]),
                     PathItem(<<"get", "post">>,
                              <<generateOperation("list", entities[i]),
                                generateOperation("create", entities[i])>>)),
                 EntityIdPath(entities[i]),
                 PathItem(<<"get", "put", "delete">>,
                          <<generateOperation("get", entities[i]),
                            generateOperation("update", entities[i]),
                            generateOperation("delete", entities[i])>>))
  IN paths[Len(entities)]

\* OpenAPIGenerator.generateTags
generateTags(dataModel) ==
  [i \in 1..Len(dataModel.entities.value) |-> dataModel.entities.value[i].name]

\* OpenAPIGenerator.generateOpenAPISpec on a config whose project and
\* features objects exist; responses are those of generateCommonResponses,
\* each with the schema it refers to
generateOpenAPISpec(cfg, dataModel) ==
  [schemas |-> generateSchemas(dataModel),
   responses |-> [r \in {"BadRequest", "NotFound", "InternalServerError"} |-> <<"E", "r", "r", "o", "r", "R", "e", "s", "p", "o", "n", "s", "e">>],
   paths |-> generatePaths(dataModel),
   security |-> cfg.features.authentication,
   tags |-> generateTags(dataModel)]

\* AsyncAPIGenerator.entityToAsyncAPISchema
entityToAsyncAPISchema(entity) ==
  Schema("entityToAsyncAPISchema", entity.name,
         EntityProperties(entity, dataTypeToAsyncAPIProperty),
         SchemaRequired(entity, LAMBDA f : ~entity.fields[f].relationship.present),
         <<>>)

\* AsyncAPIGenerator.generateEventSchema: metadata, data and previousData
\* refer to EventMetadata and to the entity's schema
generateEventSchema(entity) ==
  [Schema("generateEventSchema", entity.name, EmptyObject,
          <<<<"metadata">>, <<"data">>>>, <<>>)
     EXCEPT !.refs = {<<"E", "v", "e", "n", "t", "M", "e", "t", "a", "d", "a", "t", "a">>, entity.name}]

EventKey(name) == name \o <<"E", "v", "e", "n", "t">>

\* AsyncAPIGenerator.generateSchemas: spec.components.schemas afterwards
generateAsyncSchemas(dataModel) ==
  LET entities == dataModel.entities.value
      enums == EnumsOf(dataModel)
      afterEntities[i \in 0..Len(entities)] ==
        IF i = 0 THEN EmptyObject
        ELSE Put(Put(afterEntities[i - 1],
                     entities[i].name, entityToAsyncAPISchema(entities[i])),
                 EventKey(entities[i].name), generateEventSchema(entities[i]))
      afterEnums ==
        PutEach(afterEntities[Len(entities)], Len(enums),
                LAMBDA n : enums[n].name, LAMBDA n : EnumSchema(enums[n]))
  IN Put(afterEnums, <<"E", "v", "e", "n", "t", "M", "e", "t", "a", "d", "a", "t", "a">>, CommonSchema(<<"E", "v", "e", "n", "t", "M", "e", "t", "a", "d", "a", "t", "a">>))

LifecycleEvents == <<"created", "updated", "deleted">>

\* the characters of the three event names, lower case and capitalised
EventSuffix(event) ==
  CASE event = "created" -> <<".", "c", "r", "e", "a", "t", "e", "d">>
    [] event = "updated" -> <<".", "u", "p", "d", "a", "t", "e", "d">>
    [] event = "deleted" -> <<".", "d", "e", "l", "e", "t", "e", "d">>

EventTitle(event) ==
  CASE event = "created" -> <<"C", "r", "e", "a", "t", "e", "d">>
    [] event = "updated" -> <<"U", "p", "d", "a", "t", "e", "d">>
    [] event = "deleted" -> <<"D", "e", "l", "e", "t", "e", "d">>

\* `${entityName}.created` with entityName = entity.name.toLowerCase()
ChannelKey(name, event) == toLowerCase(name) \o EventSuffix(event)

\* `${entity.name}CreatedMessage`
MessageKey(name, event) == name \o EventTitle(event) \o <<"M", "e", "s", "s", "a", "g", "e">>

\* a channel: its operation and the message its $ref names
Channel(operation, entity, message) ==
  [operation |-> operation, entity |-> entity, message |-> message]

\* a message: its name, its traits and the schema its payload refers to
Message(name, traits, payload) == [name |-> name, traits |-> traits, payload |-> payload]

\* a variant whose messages carry no trait
generateMessagesWithoutTraits(messages, entity) ==
  PutEach(messages, Len(LifecycleEvents),
          LAMBDA k : MessageKey(entity.name, LifecycleEvents[k]),
          LAMBDA k : Message(entity.name \o EventTitle(LifecycleEvents[k]),
                             {}, Some(EventKey(entity.name))))

\* AsyncAPIGenerator.generateMessages: the three messages of an entity
generateMessages(messages, entity) ==
  PutEach(messages, Len(LifecycleEvents),
          LAMBDA k : MessageKey(entity.name, LifecycleEvents[k]),
          LAMBDA k : Message(entity.name \o EventTitle(LifecycleEvents[k]),
                             {"commonHeaders"}, Some(EventKey(entity.name))))

\* a variant that adds no system message
generateSystemMessagesNone(messages) == messages

\* AsyncAPIGenerator.generateSystemMessages
generateSystemMessages(messages) ==
  Put(messages, <<"H", "e", "a", "l", "t", "h", "C", "h", "e", "c", "k", "M", "e", "s", "s", "a", "g", "e">>, Message(<<"H", "e", "a", "l", "t", "h", "C", "h", "e", "c", "k">>, {}, None))

\* AsyncAPIGenerator.generateChannels: spec.channels and
\* spec.components.messages afterwards
generateChannels(dataModel) ==
  LET entities == dataModel.entities.value
      loop[i \in 0..Len(entities)] ==
        IF i = 0 THEN [channels |-> EmptyObject, messages |-> EmptyObject]
        ELSE [channels |->
                PutEach(loop[i - 1].channels, Len(LifecycleEvents),
                        LAMBDA k : ChannelKey(entities[i].name, LifecycleEvents[k]),
                        LAMBDA k : Channel("publish", entities[i].name,
                                           MessageKey(entities[i].name,
                                                      LifecycleEvents[k]))),
              messages |-> generateMessages(loop[i - 1].messages, entities[i])]
      done == loop[Len(entities)]
  IN [channels |-> Put(done.channels, <<"s", "y", "s", "t", "e", "m", ".", "h", "e", "a", "l", "t", "h">>,
                       Channel("subscribe", <<>>, <<"H", "e", "a", "l", "t", "h", "C", "h", "e", "c", "k", "M", "e", "s", "s", "a", "g", "e">>)),
      messages |-> generateSystemMessages(done.messages)]

\* AsyncAPIGenerator.generateAsyncAPISpec on a config whose project object
\* exists
generateAsyncAPISpec(dataModel) ==
  [schemas |-> generateAsyncSchemas(dataModel),
   channels |-> generateChannels(dataModel).channels,
   messages |-> generateChannels(dataModel).messages,
   messageTraits |-> {"commonHeaders"}]

\* core/types.ts GeneratedFile: its path (the content is kept apart)
GeneratedFile(path) == [path |-> path]

\* core/types.ts GenerationResult
GenerationResult(success, files, errors) ==
  [success |-> success, files |-> files, errors |-> errors, warnings |-> <<>>]

\* NestJSGenerator.generateEntityField: the @Column type of every field
\* that is neither a relationship nor a primary key
EntityColumns(entity) ==
  ConcatMap(Len(entity.fields), LAMBDA f :
    IF entity.fields[f].relationship.present \/ entity.fields[f].isPrimaryKey
      THEN <<>>
      ELSE <<[name |-> entity.fields[f].name,
              type |-> dataTypeToColumnType(entity.fields[f].dataType)]>>)

RECURSIVE dataTypeToTypeScriptItemsFirst(_, _)

\* a variant in which the items of an array come before the target
dataTypeToTypeScriptItemsFirst(dataType, relationshipTarget) ==
  IF TruthyStr(relationshipTarget) /\ ~(dataType.type = "array" /\ dataType.hasItems)
    THEN IF dataType.type = "array"
           THEN relationshipTarget.value \o <<"[", "]">>
           ELSE relationshipTarget.value
    ELSE
      CASE dataType.type = "string" -> <<"s", "t", "r", "i", "n", "g">>
        [] dataType.type = "number" -> <<"n", "u", "m", "b", "e", "r">>
        [] dataType.type = "boolean" -> <<"b", "o", "o", "l", "e", "a", "n">>
        [] dataType.type = "date" -> <<"D", "a", "t", "e">>
        [] dataType.type = "array" ->
             (IF dataType.hasItems
                THEN dataTypeToTypeScriptItemsFirst(dataType.items, None)
                ELSE <<"a", "n", "y">>) \o <<"[", "]">>
        [] dataType.type = "object" -> <<"o", "b", "j", "e", "c", "t">>
        [] dataType.type = "enum" ->
             IF dataType.enum.kind = "array"
               THEN ConcatMap(Len(dataType.enum.elems), LAMBDA v :
                      (IF v = 1 THEN <<>> ELSE <<" ", "|", " ">>)
                      \o <<"'">> \o dataType.enum.elems[v] \o <<"'">>)
               ELSE <<"s", "t", "r", "i", "n", "g">>
        [] OTHER -> <<"a", "n", "y">>

RECURSIVE dataTypeToTypeScript(_, _)

\* NestJSGenerator.dataTypeToTypeScript; relationshipTarget is None when the
\* argument is undefined
dataTypeToTypeScript(dataType, relationshipTarget) ==
  IF TruthyStr(relationshipTarget)
    THEN IF dataType.type = "array"
           THEN relationshipTarget.value \o <<"[", "]">>
           ELSE relationshipTarget.value
    ELSE
      CASE dataType.type = "string" -> <<"s", "t", "r", "i", "n", "g">>
        [] dataType.type = "number" -> <<"n", "u", "m", "b", "e", "r">>
        [] dataType.type = "boolean" -> <<"b", "o", "o", "l", "e", "a", "n">>
        [] dataType.type = "date" -> <<"D", "a", "t", "e">>
        [] dataType.type = "array" ->
             (IF dataType.hasItems
                THEN dataTypeToTypeScript(dataType.items, None)
                ELSE <<"a", "n", "y">>) \o <<"[", "]">>
        [] dataType.type = "object" -> <<"o", "b", "j", "e", "c", "t">>
        [] dataType.type = "enum" ->
             IF dataType.enum.kind = "array"
               THEN ConcatMap(Len(dataType.enum.elems), LAMBDA v :
                      (IF v = 1 THEN <<>> ELSE <<" ", "|", " ">>)
                      \o <<"'">> \o dataType.enum.elems[v] \o <<"'">>)
               ELSE <<"s", "t", "r", "i", "n", "g">>
        [] OTHER -> <<"a", "n", "y">>

\* the field declarations of generateEntityField: the name and the type
\* dataTypeToTypeScript(field.dataType, field.relationship?.target) gives
EntityDeclarations(entity) ==
  [f \in 1..Len(entity.fields) |->
     [name |-> entity.fields[f].name,
      type |-> dataTypeToTypeScript(
                 entity.fields[f].dataType,
                 IF entity.fields[f].relationship.present
                   THEN Some(entity.fields[f].relationship.target)
                   ELSE None)]]

\* NestJSGenerator.generateEntityClass: the table, the columns and the
\* field declarations
generateEntityClass(entity) ==
  [name |-> entity.name,
   table |-> toLowerCase(entity.name) \o <<"s">>,
   columns |-> EntityColumns(entity),
   fields |-> EntityDeclarations(entity)]

\* NestJSGenerator.generateEntityFiles, entityPath = entity.name.toLowerCase()
generateEntityFiles(entity) ==
  LET entityPath == toLowerCase(entity.name)
      dir == <<"s", "r", "c", "/">> \o entityPath \o <<"/">>
  IN <<GeneratedFile(dir \o entityPath \o <<".", "e", "n", "t", "i", "t", "y", ".", "t", "s">>),
       GeneratedFile(dir \o <<"d", "t", "o", "/", "c", "r", "e", "a", "t", "e", "-">> \o entityPath \o <<".", "d", "t", "o", ".", "t", "s">>),
       GeneratedFile(dir \o <<"d", "t", "o", "/", "u", "p", "d", "a", "t", "e", "-">> \o entityPath \o <<".", "d", "t", "o", ".", "t", "s">>),
       GeneratedFile(dir \o entityPath \o <<".", "s", "e", "r", "v", "i", "c", "e", ".", "t", "s">>),
       GeneratedFile(dir \o entityPath \o <<".", "c", "o", "n", "t", "r", "o", "l", "l", "e", "r", ".", "t", "s">>),
       GeneratedFile(dir \o entityPath \o <<".", "m", "o", "d", "u", "l", "e", ".", "t", "s">>)>>

\* the files NestJSGenerator.generate pushes, in order, on a config whose
\* project name, database and features exist
NestJSFiles(cfg, dataModel) ==
  LET
      generateAppFiles ==
        <<GeneratedFile(<<"s", "r", "c", "/", "m", "a", "i", "n", ".", "t", "s">>), GeneratedFile(<<"s", "r", "c", "/", "a", "p", "p", ".", "m", "o", "d", "u", "l", "e", ".", "t", "s">>),
          GeneratedFile(<<"s", "r", "c", "/", "a", "p", "p", ".", "c", "o", "n", "t", "r", "o", "l", "l", "e", "r", ".", "t", "s">>), GeneratedFile(<<"s", "r", "c", "/", "a", "p", "p", ".", "s", "e", "r", "v", "i", "c", "e", ".", "t", "s">>)>>
      generateDatabaseFiles ==
        <<GeneratedFile(<<"s", "r", "c", "/", "c", "o", "n", "f", "i", "g", "/", "d", "a", "t", "a", "b", "a", "s", "e", ".", "c", "o", "n", "f", "i", "g", ".", "t", "s">>), GeneratedFile(<<".", "e", "n", "v", ".", "e", "x", "a", "m", "p", "l", "e">>)>>
      generateAuthFiles ==
        <<GeneratedFile(<<"s", "r", "c", "/", "a", "u", "t", "h", "/", "a", "u", "t", "h", ".", "m", "o", "d", "u", "l", "e", ".", "t", "s">>), GeneratedFile(<<"s", "r", "c", "/", "a", "u", "t", "h", "/", "a", "u", "t", "h", ".", "s", "e", "r", "v", "i", "c", "e", ".", "t", "s">>),
          GeneratedFile(<<"s", "r", "c", "/", "a", "u", "t", "h", "/", "a", "u", "t", "h", ".", "c", "o", "n", "t", "r", "o", "l", "l", "e", "r", ".", "t", "s">>),
          GeneratedFile(<<"s", "r", "c", "/", "a", "u", "t", "h", "/", "s", "t", "r", "a", "t", "e", "g", "i", "e", "s", "/", "j", "w", "t", ".", "s", "t", "r", "a", "t", "e", "g", "y", ".", "t", "s">>),
          GeneratedFile(<<"s", "r", "c", "/", "a", "u", "t", "h", "/", "d", "t", "o", "/", "l", "o", "g", "i", "n", ".", "d", "t", "o", ".", "t", "s">>),
          GeneratedFile(<<"s", "r", "c", "/", "a", "u", "t", "h", "/", "d", "t", "o", "/", "r", "e", "g", "i", "s", "t", "e", "r", ".", "d", "t", "o", ".", "t", "s">>)>>
      generateConfigFiles ==
        <<GeneratedFile(<<"t", "s", "c", "o", "n", "f", "i", "g", ".", "j", "s", "o", "n">>), GeneratedFile(<<"n", "e", "s", "t", "-", "c", "l", "i", ".", "j", "s", "o", "n">>),
          GeneratedFile(<<".", "e", "s", "l", "i", "n", "t", "r", "c", ".", "j", "s">>), GeneratedFile(<<".", "p", "r", "e", "t", "t", "i", "e", "r", "r", "c">>)>>
      generateTestFiles ==
        <<GeneratedFile(<<"j", "e", "s", "t", ".", "c", "o", "n", "f", "i", "g", ".", "j", "s">>), GeneratedFile(<<"t", "e", "s", "t", "/", "j", "e", "s", "t", "-", "e", "2", "e", ".", "j", "s", "o", "n">>)>>
  IN
  <<GeneratedFile(<<"p", "a", "c", "k", "a", "g", "e", ".", "j", "s", "o", "n">>)>>
  \o generateAppFiles
  \o ConcatMap(Len(dataModel.entities.value), LAMBDA e :
       generateEntityFiles(dataModel.entities.value[e]))
  \o generateDatabaseFiles
  \o (IF cfg.features.authentication THEN generateAuthFiles ELSE <<>>)
  \o generateConfigFiles
  \o (IF cfg.features.testing THEN generateTestFiles ELSE <<>>)

\* NestJSGenerator.pluralize
pluralize(str) ==
  LET endsWith(suffix) ==
        /\ Len(str) >= Len(suffix)
        /\ SubSeq(str, Len(str) - Len(suffix) + 1, Len(str)) = suffix
  IN IF endsWith(<<"y">>) THEN SubSeq(str, 1, Len(str) - 1) \o <<"i", "e", "s">>
     ELSE IF endsWith(<<"s">>) \/ endsWith(<<"s", "h">>) \/ endsWith(<<"c", "h">>) THEN str \o <<"e", "s">>
     ELSE str \o <<"s">>

\* NestJSGenerator.generateController: the tag and the route of the
\* decorators <<"A", "p", "i", "T", "a", "g", "s", " ", "a", "n", "d", " ">>Controller
generateController(entity) ==
  [tag |-> entity.name, route |-> pluralize(toLowerCase(entity.name))]

\* the entity classes and the controllers among the contents of these
\* files, in order
NestJSClasses(dataModel) ==
  [e \in 1..Len(dataModel.entities.value) |->
     LET class == generateEntityClass(dataModel.entities.value[e])
     IN [name |-> class.name, table |-> class.table,
         columns |-> class.columns, fields |-> class.fields,
         controller |-> generateController(dataModel.entities.value[e])]]

(***************************************************************************)
(* The project configuration, as fs.readJson returns it: the file is not   *)
(* validated, so project, project.name, database and features may each be  *)
(* missing.                                                                *)
(***************************************************************************)
NoFeatures ==
  [present |-> FALSE, authentication |-> FALSE, asyncapi |-> FALSE,
   docker |-> FALSE, testing |-> FALSE]

\* core/types.ts ProjectConfig.features
Features(authentication, asyncApi, docker, testing) ==
  [present |-> TRUE, authentication |-> authentication, asyncapi |-> asyncApi,
   docker |-> docker, testing |-> testing]

\* core/types.ts ProjectConfig; project is "absent", "unnamed" (an object
\* without name) or "named"; exists tells whether the file is there
ProjectConfig(exists, project, database, features) ==
  [exists |-> exists, project |-> project, database |-> database,
   features |-> features]

\* the message of the TypeError of reading a property of undefined
TypeError(property) ==
  <<"Cannot read properties of undefined (reading '", property, "')">>

\* the first failing property access of OpenAPIGenerator.generateOpenAPISpec
OpenAPIFailure(cfg) ==
  IF cfg.project = "absent" THEN TypeError("name")
  ELSE IF ~cfg.features.present THEN TypeError("authentication")
  ELSE <<>>

\* the first failing property access of AsyncAPIGenerator.generateAsyncAPISpec
AsyncAPIFailure(cfg) ==
  IF cfg.project = "absent" THEN TypeError("name") ELSE <<>>

\* the first failing property access of NestJSGenerator.generate: all three
\* are in generatePackageJson
NestJSFailure(cfg) ==
  IF cfg.project = "absent" THEN TypeError("name")
  ELSE IF cfg.project = "unnamed" THEN TypeError("toLowerCase")
  ELSE IF ~cfg.database THEN TypeError("type")
  ELSE IF ~cfg.features.present THEN TypeError("authentication")
  ELSE <<>>

\* what a generator holds: whether generate() has returned, the document
\* (or the entity classes) it built, and the GenerationResult it returned
NotGenerated ==
  [returned |-> FALSE, rejected |-> FALSE, spec |-> EmptyObject,
   result |-> GenerationResult(FALSE, <<>>, <<>>)]

Generated(spec, generationResult) ==
  [returned |-> TRUE, rejected |-> FALSE, spec |-> spec,
   result |-> generationResult]

\* the call ended with the exception leaving generate()
Rejected(message) ==
  [returned |-> FALSE, rejected |-> TRUE, spec |-> EmptyObject,
   result |-> GenerationResult(FALSE, <<>>, <<message>>)]

NoException == [raised |-> FALSE, message |-> <<>>]

Exception(message) == [raised |-> TRUE, message |-> message]

\* a catch block that throws the error again
Rethrown(exc) == Rejected(exc.message)

\* the catch block of the three generate(): the error becomes the result
Caught(exc) == Generated(EmptyObject, GenerationResult(FALSE, <<>>, <<exc.message>>))

(***************************************************************************)
(* Actions: GenerateCommand.execute (cli/commands/sample.ts) calling the   *)
(* loader and then the generators.  generate() of a generator is its try   *)
(* block and, when that raised, its catch block.                           *)
(***************************************************************************)
GenerationTypes == {<<"s", "p", "e", "c", "s">>, <<"b", "a", "c", "k", "e", "n", "d">>, <<"d", "o", "c", "k", "e", "r">>, <<"a", "l", "l">>}

\* the command run, its type argument and options.dryRun
Options(command, type, dryRun) ==
  [command |-> command, type |-> type, dryRun |-> dryRun]

loaderVars == <<input, strict, calls, loaderErrors, result, configResult>>

\* execute up to the call of parser.parseFromFile
GenerateExecute ==
  /\ options.command = "generate"
  /\ pc = "execute"
  /\ pc' = IF ~config.exists \/ ~input.exists THEN "failed" ELSE "parseFromFile"
  /\ UNCHANGED <<loaderVars, thrown>>
  /\ UNCHANGED genVars

\* the first failing property access of showDryRun
DryRunFailure(type, cfg) ==
  IF cfg.features.present THEN <<>>
  ELSE IF type \in {<<"s", "p", "e", "c", "s">>, <<"a", "l", "l">>} THEN TypeError("asyncapi")
  ELSE IF type = <<"d", "o", "c", "k", "e", "r">> THEN TypeError("docker")
  ELSE <<>>

\* execute from the return of parseFromFile to the call of a generator
GenerateDispatch ==
  /\ options.command = "generate"
  /\ pc = "loaded"
  /\ IF options.dryRun
       THEN IF DryRunFailure(options.type, config) # <<>>
              THEN /\ pc' = "catch"
                   /\ thrown' = Error("showDryRun", <<>>, "",
                                      DryRunFailure(options.type, config))
              ELSE pc' = "returned" /\ thrown' = thrown
       ELSE /\ thrown' = thrown
            /\ pc' = CASE toLowerCase(options.type) = <<"s", "p", "e", "c", "s">> -> "generateSpecs"
                       [] toLowerCase(options.type) = <<"b", "a", "c", "k", "e", "n", "d">> -> "generateBackend"
                       [] toLowerCase(options.type) = <<"d", "o", "c", "k", "e", "r">> -> "generateDocker"
                       [] toLowerCase(options.type) = <<"a", "l", "l">> -> "generateSpecs"
                       [] OTHER -> "failed"
  /\ UNCHANGED loaderVars
  /\ UNCHANGED genVars

\* path.join(outputDir, dir, file.path) of every file
WrittenUnder(dir, files) == [i \in 1..Len(files) |-> dir \o files[i].path]

\* where execute goes on after generateSpecs
AfterSpecs ==
  IF toLowerCase(options.type) = <<"a", "l", "l">> THEN "generateBackend" ELSE "succeed"


\* OpenAPIGenerator.generate, the try block
OpenAPIGenerate ==
  /\ pc = "generateSpecs"
  /\ IF OpenAPIFailure(config) # <<>>
       THEN /\ exception' = Exception(OpenAPIFailure(config))
            /\ openapi' = openapi
            /\ pc' = "openapiCatch"
       ELSE /\ exception' = exception
            /\ openapi' = Generated(generateOpenAPISpec(config, input.data),
                 GenerationResult(TRUE, <<GeneratedFile(<<"o", "p", "e", "n", "a", "p", "i", ".", "j", "s", "o", "n">>),
                                          GeneratedFile(<<"o", "p", "e", "n", "a", "p", "i", ".", "y", "a", "m", "l">>)>>, <<>>))
            /\ pc' = "openapiReturned"
  /\ UNCHANGED <<loaderVars, thrown, config, options, asyncapi, backend, written>>

\* OpenAPIGenerator.generate, the catch block
OpenAPICatch ==
  /\ pc = "openapiCatch"
  /\ openapi' = Caught(exception)
  /\ exception' = NoException
  /\ pc' = "openapiReturned"
  /\ UNCHANGED <<loaderVars, thrown, config, options, asyncapi, backend, written>>

\* generateSpecs from the return of the OpenAPI generator
WriteOpenAPI ==
  /\ options.command = "generate"
  /\ pc = "openapiReturned"
  /\ IF ~openapi.result.success
       THEN /\ thrown' = Error("generateSpecs", <<"OpenAPI generation failed: ">>,
                               ", ", openapi.result.errors)
            /\ written' = written
            /\ pc' = "catch"
       ELSE /\ thrown' = thrown
            /\ written' = written \o WrittenUnder(<<"s", "p", "e", "c", "s", "/">>, openapi.result.files)
            /\ pc' = IF config.features.asyncapi THEN "generateAsyncAPI" ELSE AfterSpecs
  /\ UNCHANGED <<loaderVars, config, options, openapi, asyncapi, backend, exception>>

\* AsyncAPIGenerator.generate, the try block
AsyncAPIGenerate ==
  /\ pc = "generateAsyncAPI"
  /\ IF AsyncAPIFailure(config) # <<>>
       THEN /\ exception' = Exception(AsyncAPIFailure(config))
            /\ asyncapi' = asyncapi
            /\ pc' = "asyncapiCatch"
       ELSE /\ exception' = exception
            /\ asyncapi' = Generated(generateAsyncAPISpec(input.data),
                 GenerationResult(TRUE, <<GeneratedFile(<<"a", "s", "y", "n", "c", "a", "p", "i", ".", "j", "s", "o", "n">>),
                                          GeneratedFile(<<"a", "s", "y", "n", "c", "a", "p", "i", ".", "y", "a", "m", "l">>)>>, <<>>))
            /\ pc' = "asyncapiReturned"
  /\ UNCHANGED <<loaderVars, thrown, config, options, openapi, backend, written>>

\* AsyncAPIGenerator.generate, the catch block
AsyncAPICatch ==
  /\ pc = "asyncapiCatch"
  /\ asyncapi' = Caught(exception)
  /\ exception' = NoException
  /\ pc' = "asyncapiReturned"
  /\ UNCHANGED <<loaderVars, thrown, config, options, openapi, backend, written>>

\* generateSpecs from the return of the AsyncAPI generator
WriteAsyncAPI ==
  /\ options.command = "generate"
  /\ pc = "asyncapiReturned"
  /\ IF ~asyncapi.result.success
       THEN /\ thrown' = Error("generateSpecs", <<"AsyncAPI generation failed: ">>,
                               ", ", asyncapi.result.errors)
            /\ written' = written
            /\ pc' = "catch"
       ELSE /\ thrown' = thrown
            /\ written' = written \o WrittenUnder(<<"s", "p", "e", "c", "s", "/">>, asyncapi.result.files)
            /\ pc' = AfterSpecs
  /\ UNCHANGED <<loaderVars, config, options, openapi, asyncapi, backend, exception>>

\* NestJSGenerator.generate, the try block
NestJSGenerate ==
  /\ pc = "generateBackend"
  /\ IF NestJSFailure(config) # <<>>
       THEN /\ exception' = Exception(NestJSFailure(config))
            /\ backend' = backend
            /\ pc' = "backendCatch"
       ELSE /\ exception' = exception
            /\ backend' = Generated(NestJSClasses(input.data),
                 GenerationResult(TRUE, NestJSFiles(config, input.data), <<>>))
            /\ pc' = "backendReturned"
  /\ UNCHANGED <<loaderVars, thrown, config, options, openapi, asyncapi, written>>

\* NestJSGenerator.generate, the catch block
NestJSCatch ==
  /\ pc = "backendCatch"
  /\ backend' = Caught(exception)
  /\ exception' = NoException
  /\ pc' = "backendReturned"
  /\ UNCHANGED <<loaderVars, thrown, config, options, openapi, asyncapi, written>>

\* generateBackend without the check of result.success
WriteBackendNoAbort ==
  /\ options.command = "generate"
  /\ pc = "backendReturned"
  /\ thrown' = thrown
  /\ written' = written \o WrittenUnder(<<"b", "a", "c", "k", "e", "n", "d", "/">>, backend.result.files)
  /\ pc' = IF toLowerCase(options.type) = <<"a", "l", "l">> /\ config.features.docker
             THEN "generateDocker" ELSE "succeed"
  /\ UNCHANGED <<loaderVars, config, options, openapi, asyncapi, backend, exception>>

\* generateBackend from the return of the generator
WriteBackend ==
  /\ options.command = "generate"
  /\ pc = "backendReturned"
  /\ IF ~backend.result.success
       THEN /\ thrown' = Error("generateBackend", <<"Backend generation failed: ">>,
                               ", ", backend.result.errors)
            /\ written' = written
            /\ pc' = "catch"
       ELSE /\ thrown' = thrown
            /\ written' = written \o WrittenUnder(<<"b", "a", "c", "k", "e", "n", "d", "/">>, backend.result.files)
            /\ pc' = IF toLowerCase(options.type) = <<"a", "l", "l">> /\ config.features.docker
                       THEN "generateDocker" ELSE "succeed"
  /\ UNCHANGED <<loaderVars, config, options, openapi, asyncapi, backend, exception>>

\* generateDocker: the Dockerfile is written before generateDockerCompose
\* reads config.database.port
GenerateDocker ==
  /\ options.command = "generate"
  /\ pc = "generateDocker"
  /\ IF ~config.database
       THEN /\ thrown' = Error("generateDockerCompose", <<>>, "", TypeError("port"))
            /\ written' = written \o <<<<"D", "o", "c", "k", "e", "r", "f", "i", "l", "e">>>>
            /\ pc' = "catch"
       ELSE /\ thrown' = thrown
            /\ written' = written \o <<<<"D", "o", "c", "k", "e", "r", "f", "i", "l", "e">>, <<"d", "o", "c", "k", "e", "r", "-", "c", "o", "m", "p", "o", "s", "e", ".", "y", "m", "l">>,
                                       <<".", "d", "o", "c", "k", "e", "r", "i", "g", "n", "o", "r", "e">>>>
            /\ pc' = "succeed"
  /\ UNCHANGED <<loaderVars, config, options, openapi, asyncapi, backend, exception>>

\* spinner.succeed and showNextSteps
GenerateSucceed ==
  /\ options.command = "generate"
  /\ pc = "succeed"
  /\ pc' = "succeeded"
  /\ UNCHANGED <<loaderVars, thrown>>
  /\ UNCHANGED genVars

\* the catch block of execute: the error is logged and thrown again
GenerateCatch ==
  /\ options.command = "generate"
  /\ pc = "catch"
  /\ pc' = "rejected"
  /\ UNCHANGED <<loaderVars, thrown>>
  /\ UNCHANGED genVars

(***************************************************************************)
(* Actions: PreviewCommand.execute (cli/commands/preview.ts), which loads  *)
(* like GenerateCommand.execute, calls the same generators and collects    *)
(* the files of those that succeeded for display instead of writing them.  *)
(***************************************************************************)
\* execute up to the call of parser.parseFromFile
PreviewExecute ==
  /\ options.command = "preview"
  /\ pc = "execute"
  /\ pc' = IF ~config.exists \/ ~input.exists THEN "failed" ELSE "parseFromFile"
  /\ UNCHANGED <<loaderVars, thrown>>
  /\ UNCHANGED genVars

\* execute from the return of parseFromFile to the call of a generator
PreviewDispatch ==
  /\ options.command = "preview"
  /\ pc = "loaded"
  /\ pc' = CASE toLowerCase(options.type) = <<"s", "p", "e", "c", "s">> -> "generateSpecs"
             [] toLowerCase(options.type) = <<"b", "a", "c", "k", "e", "n", "d">> -> "generateBackend"
             [] toLowerCase(options.type) = <<"d", "o", "c", "k", "e", "r">> -> "previewDocker"
             [] toLowerCase(options.type) = <<"a", "l", "l">> -> "generateSpecs"
             [] OTHER -> "failed"
  /\ UNCHANGED <<loaderVars, thrown>>
  /\ UNCHANGED genVars

\* where previewAll goes on after previewSpecs
AfterPreviewSpecs ==
  IF toLowerCase(options.type) = <<"a", "l", "l">> THEN "generateBackend" ELSE "returned"

\* previewSpecs from the return of the OpenAPI generator to the read of
\* config.features.asyncapi
PreviewOpenAPI ==
  /\ options.command = "preview"
  /\ pc = "openapiReturned"
  /\ written' = IF openapi.result.success
                  THEN written \o WrittenUnder(<<>>, openapi.result.files)
                  ELSE written
  /\ IF ~config.features.present
       THEN /\ thrown' = Error("previewSpecs", <<>>, "", TypeError("asyncapi"))
            /\ pc' = "catch"
       ELSE /\ thrown' = thrown
            /\ pc' = IF config.features.asyncapi
                       THEN "generateAsyncAPI" ELSE AfterPreviewSpecs
  /\ UNCHANGED <<loaderVars, config, options, openapi, asyncapi, backend, exception>>

\* previewSpecs from the return of the AsyncAPI generator
PreviewAsyncAPI ==
  /\ options.command = "preview"
  /\ pc = "asyncapiReturned"
  /\ written' = IF asyncapi.result.success
                  THEN written \o WrittenUnder(<<>>, asyncapi.result.files)
                  ELSE written
  /\ pc' = AfterPreviewSpecs
  /\ UNCHANGED <<loaderVars, thrown>>
  /\ UNCHANGED <<config, options, openapi, asyncapi, backend, exception>>

\* previewBackend from the return of the generator, and in previewAll the
\* read of config.features.docker
PreviewBackend ==
  /\ options.command = "preview"
  /\ pc = "backendReturned"
  /\ written' = IF backend.result.success
                  THEN written \o WrittenUnder(<<>>, backend.result.files)
                  ELSE written
  /\ IF toLowerCase(options.type) # <<"a", "l", "l">>
       THEN pc' = "returned" /\ thrown' = thrown
       ELSE IF ~config.features.present
              THEN /\ thrown' = Error("previewAll", <<>>, "", TypeError("docker"))
                   /\ pc' = "catch"
              ELSE /\ thrown' = thrown
                   /\ pc' = IF config.features.docker
                              THEN "previewDocker" ELSE "returned"
  /\ UNCHANGED <<loaderVars, config, options, openapi, asyncapi, backend, exception>>

\* previewDocker: generateDockerCompose reads config.database.type before
\* any file is displayed
PreviewDocker ==
  /\ options.command = "preview"
  /\ pc = "previewDocker"
  /\ IF ~config.database
       THEN /\ thrown' = Error("generateDockerCompose", <<>>, "", TypeError("type"))
            /\ written' = written
            /\ pc' = "catch"
       ELSE /\ thrown' = thrown
            /\ written' = written \o <<<<"D", "o", "c", "k", "e", "r", "f", "i", "l", "e">>, <<"d", "o", "c", "k", "e", "r", "-", "c", "o", "m", "p", "o", "s", "e", ".", "y", "m", "l">>,
                                       <<".", "d", "o", "c", "k", "e", "r", "i", "g", "n", "o", "r", "e">>>>
            /\ pc' = "returned"
  /\ UNCHANGED <<loaderVars, config, options, openapi, asyncapi, backend, exception>>

\* the catch block of execute: the error is logged and thrown again
PreviewCatch ==
  /\ options.command = "preview"
  /\ pc = "catch"
  /\ pc' = "rejected"
  /\ UNCHANGED <<loaderVars, thrown>>
  /\ UNCHANGED genVars

GenNext ==
  \/ GenerateExecute
  \/ ParseFromFile
  \/ ParseFromJson
  \/ ParseFromYaml
  \/ ValidateAndParse
  \/ LoaderValidateBusinessRules
  \/ GenerateDispatch
  \/ OpenAPIGenerate
  \/ OpenAPICatch
  \/ WriteOpenAPI
  \/ AsyncAPIGenerate
  \/ AsyncAPICatch
  \/ WriteAsyncAPI
  \/ NestJSGenerate
  \/ NestJSCatch
  \/ WriteBackend
  \/ GenerateDocker
  \/ GenerateSucceed
  \/ GenerateCatch
  \/ PreviewExecute
  \/ PreviewDispatch
  \/ PreviewOpenAPI
  \/ PreviewAsyncAPI
  \/ PreviewBackend
  \/ PreviewDocker
  \/ PreviewCatch


(***************************************************************************)
(* The explored documents.  A family fixes the fields every entity starts  *)
(* with (base) and a universe of fields that vary; a document has at most  *)
(* MaxEntities entities and at most MaxVariedFields fields drawn from the  *)
(* universe.  ExampleInput adds documents written out in full.             *)
(***************************************************************************)
Min(a, b) == IF a < b THEN a ELSE b

DigitOf(j) == <<"1", "2", "3", "4", "5", "6", "7", "8", "9">>[j]

RECURSIVE Sum(_, _)

\* counts[1] + ... + counts[n]
Sum(counts, n) == IF n = 0 THEN 0 ELSE Sum(counts, n - 1) + counts[n]

\* the entities that take counts[e] fields each, in order, from varied
\* after the base fields; numbered appends the position to a field's name
EntitiesFrom(names, base, varied, counts, numbered) ==
  [e \in 1..Len(names) |->
     Entity(names[e],
            base \o [j \in 1..counts[e] |->
                       LET field == varied[Sum(counts, e - 1) + j]
                       IN IF numbered
                            THEN [field EXCEPT !.name = field.name \o <<DigitOf(j)>>]
                            ELSE field])]

File(exists, ext, wellFormed, data) ==
  [exists |-> exists, ext |-> ext, wellFormed |-> wellFormed, data |-> data]

\* the input is a well-formed JSON file holding a document of the family
\* (names, base, universe); names[e] are the names the e-th entity may take
\* (the last set serves all further entities)
InputFrom(names, base, universe, numbered, enums) ==
  \E n \in 1..MaxEntities :
    \E counts \in [1..n -> (IF base = <<>> THEN 1 ELSE 0)..MaxVariedFields] :
      /\ Sum(counts, n) <= MaxVariedFields
      /\ \E entityNames \in [1..n -> UNION Range(names)] :
           /\ \A e \in 1..n : entityNames[e] \in names[Min(e, Len(names))]
           /\ \E varied \in [1..Sum(counts, n) -> universe] :
                input = File(TRUE, ".json", TRUE,
                             DataModel(TRUE, Some(<<"1", ".", "0", ".", "0">>),
                                       Some(EntitiesFrom(entityNames, base, varied,
                                                         counts, numbered)),
                                       enums))

NameA == <<"A">>
NameB == <<"B">>
NameC == <<"C">>
NameZ == <<"Z">>

IdField == Field(<<"i", "d">>, PlainType("string"), NoRelationship, TRUE, TRUE)

\* documents of entities {id, relationship fields}, named A, B, C in turn;
\* no entity is named Z
RelationshipFields ==
  {Field(<<"r">>, PlainType("object"),
         Relationship(type, target, key[1], key[2]), FALSE, FALSE) :
     type \in RelationshipTypes,
     target \in {NameA, NameB, NameZ},
     key \in {<<None, None>>, <<Some(<<"k">>), Some(<<"t">>)>>}}

RelationshipInput ==
  InputFrom(<<{NameA}, {NameB}, {NameC}>>, <<IdField>>, RelationshipFields, TRUE, None)

\* documents of plain fields with every primary-key / generated marking
KeyFields ==
  {Field(name, PlainType("string"), NoRelationship, isPrimaryKey, isGenerated) :
     name \in {<<"x">>, <<"y">>},
     isPrimaryKey \in BOOLEAN,
     isGenerated \in BOOLEAN}

KeyInput == InputFrom(<<{NameA, NameB}>>, <<>>, KeyFields, FALSE, None)

\* documents of enum fields in every shape of dataType.enum, with and
\* without the enum definitions they may name
EnumR == <<"R">>
EnumS == <<"S">>

EnumFields ==
  {Field(<<"e">>, DataType("enum", enum, NoValidation, None, FALSE),
         NoRelationship, FALSE, FALSE) :
     enum \in {NoEnum, EnumArray(<<>>), EnumArray(<<EnumR>>), EnumArray(<<EnumS>>),
               EnumArray(<<EnumR, EnumS>>), EnumArray(<<<<>>>>),
               EnumString(<<"R">>)}}
  \cup
  {Field(<<"e">>, DataType("string", enum, NoValidation, None, FALSE),
         NoRelationship, FALSE, FALSE) :
     enum \in {NoEnum, EnumArray(<<EnumS>>)}}

EnumLists ==
  {None, Some(<<>>),
   Some(<<EnumDefinition(EnumR, <<<<"V">>>>)>>),
   Some(<<EnumDefinition(EnumR, <<<<"V">>>>), EnumDefinition(EnumS, <<<<"W">>>>)>>)}

EnumInput ==
  \E enums \in EnumLists : InputFrom(<<{NameA}>>, <<IdField>>, EnumFields, TRUE, enums)

\* documents whose entity, field, enum and enum value names do or do not
\* follow the naming conventions
NamingFields ==
  {Field(name, PlainType("boolean"), NoRelationship, FALSE, FALSE) :
     name \in {<<"X">>, <<"x", "_">>, <<"x", "Y", "2">>}}

NamingEnumLists ==
  {None,
   Some(<<EnumDefinition(<<"r">>, <<<<"V">>>>)>>),
   Some(<<EnumDefinition(<<"R", "1">>, <<<<"v">>, <<"V", "_", "1">>>>)>>)}

NamingInput ==
  \E enums \in NamingEnumLists :
    InputFrom(<<{NameA, <<"a">>, <<"A", "-">>}>>, <<IdField>>, NamingFields, FALSE,
              enums)

\* documents of fields with validation rules, descriptions and item types
ConstraintFields ==
  {Field(<<"c">>, DataType("string", NoEnum, validation, description, FALSE),
         NoRelationship, FALSE, FALSE) :
     validation \in {NoValidation,
                     Validation(Some(2), Some(1), NoNum, NoNum),
                     Validation(Some(1), Some(2), Some(2), Some(1)),
                     Validation(Some(0), Some(0), NoNum, NoNum),
                     Validation(NoNum, Some(-1), NoNum, NoNum)},
     description \in {None, Some(<<"d">>)}}
  \cup
  {Field(<<"c">>, DataType("number", NoEnum, validation, Some(<<>>), FALSE),
         NoRelationship, FALSE, FALSE) :
     validation \in {Validation(NoNum, NoNum, Some(2), Some(1)),
                     Validation(Some(2), Some(1), Some(-1), Some(0)),
                     Validation(NoNum, NoNum, NoNum, Some(1))}}
  \cup
  {Field(<<"c">>, DataType("array", NoEnum, NoValidation, None, hasItems),
         NoRelationship, FALSE, FALSE) :
     hasItems \in BOOLEAN}

ConstraintInput ==
  InputFrom(<<{NameA}>>, <<IdField>>, ConstraintFields, TRUE, None)

\* documents that violate the schema at the top level or inside an entity,
\* alone or together with business-rule violations
Versions ==
  {None, Some(<<"1", ".", "0", ".", "0">>), Some(<<"1", ".", "0">>),
   Some(<<"1", "2", ".", "0", ".", "3", "4">>), Some(<<"1", ".", ".", "0">>),
   Some(<<"v", "1", ".", "0", ".", "0">>), Some(<<>>)}

StructuralEntityLists ==
  {None, Some(<<>>),
   Some(<<Entity(NameA, <<>>)>>),
   Some(<<Entity(NameA, <<IdField>>)>>),
   Some(<<Entity(NameA, <<IdField>>), Entity(NameA, <<IdField>>)>>),
   Some(<<Entity(NameA, <<Field(<<"x">>, PlainType("text"), NoRelationship,
                                FALSE, FALSE)>>)>>),
   Some(<<Entity(NameA, <<Field(<<"x">>, PlainType("string"),
                                Relationship("hasMany", NameB, None, None),
                                FALSE, FALSE)>>)>>),
   Some(<<Entity(NameA, <<IdField,
                          Field(<<"x">>, PlainType("object"),
                                Relationship("manyToOne", NameB, None, None),
                                FALSE, FALSE)>>)>>),
   Some(<<Entity(NameA, <<Field(<<"x">>, PlainType("array"),
                                Relationship("oneToMany", NameB, None, None),
                                FALSE, FALSE)>>)>>)}

StructuralInput ==
  \/ input = File(TRUE, ".json", TRUE, NotAnObject)
  \/ \E hasName \in BOOLEAN, version \in Versions,
        entities \in StructuralEntityLists, enums \in NamingEnumLists :
       input = File(TRUE, ".json", TRUE, DataModel(hasName, version, entities, enums))

\* files that are missing, of any extension, well-formed or not
FileDocs ==
  {DataModel(TRUE, Some(<<"1", ".", "0", ".", "0">>), entities, None) :
     entities \in StructuralEntityLists}

FileInput ==
  \E exists \in BOOLEAN, ext \in {".json", ".yaml", ".yml", ".txt"},
     wellFormed \in BOOLEAN, data \in FileDocs :
    input = File(exists, ext, wellFormed, data)

\* documents written out in full
TreeDoc ==
  DataModel(TRUE, Some(<<"1", ".", "0", ".", "0">>),
    Some(<<Entity(NameA,
             <<IdField,
               Field(<<"p">>, PlainType("object"),
                     Relationship("manyToOne", NameA, Some(<<"k">>), None),
                     FALSE, FALSE),
               Field(<<"q">>, PlainType("array"),
                     Relationship("oneToMany", NameB, None, None), FALSE, FALSE),
               Field(<<"o">>, PlainType("object"),
                     Relationship("oneToOne", NameZ, Some(<<"k">>), None),
                     FALSE, FALSE),
               Field(<<"o">>, PlainType("object"),
                     Relationship("manyToMany", NameZ, None, Some(<<"t">>)),
                     FALSE, FALSE)>>),
           Entity(NameB,
             <<Field(<<"n">>, PlainType("number"), NoRelationship, FALSE, TRUE),
               Field(<<"k">>, PlainType("string"), NoRelationship, TRUE, FALSE),
               Field(<<"k">>, PlainType("string"), NoRelationship, TRUE, TRUE)>>),
           Entity(NameC,
             <<Field(<<"n">>, PlainType("number"), NoRelationship, FALSE, TRUE),
               Field(<<"b">>, PlainType("object"),
                     Relationship("manyToOne", NameB, Some(<<"k">>), None),
                     FALSE, FALSE)>>)>>),
    None)

\* an array field without items, a string field without maxLength and an
\* enum value in lower case, next to a field that has all it should
StrictDoc ==
  DataModel(TRUE, Some(<<"1", ".", "0", ".", "0">>),
    Some(<<Entity(NameA,
             <<IdField,
               Field(<<"l">>, PlainType("array"), NoRelationship, FALSE, FALSE),
               Field(<<"s">>,
                     DataType("string", NoEnum,
                              Validation(NoNum, Some(9), NoNum, NoNum),
                              Some(<<"d">>), FALSE),
                     NoRelationship, FALSE, FALSE)>>)>>),
    Some(<<EnumDefinition(EnumR, <<<<"V">>, <<"v">>>>)>>))

\* DataModelParser.generateSample, which is also models/data-model.json: the
\* BlogAPI model of the entities User and Post and the enum UserRole
generateSample ==
  DataModel(TRUE, Some(<<"1", ".", "0", ".", "0">>),
    Some(<<WithTimestamps(Entity(<<"U", "s", "e", "r">>,
             <<Field(<<"i", "d">>, WithFormat(PlainType("string"), "uuid"),
                     NoRelationship, TRUE, TRUE),
               Field(<<"e", "m", "a", "i", "l">>,
                     WithFormat(DataType("string", NoEnum,
                                         Validation(NoNum, NoNum, NoNum, NoNum),
                                         None, FALSE),
                                "email"),
                     NoRelationship, FALSE, FALSE),
               Field(<<"n", "a", "m", "e">>,
                     DataType("string", NoEnum,
                              Validation(Some(2), Some(100), NoNum, NoNum),
                              None, FALSE),
                     NoRelationship, FALSE, FALSE),
               Field(<<"r", "o", "l", "e">>,
                     DataType("enum", EnumArray(<<<<"U", "s", "e", "r", "R", "o", "l", "e">>>>), NoValidation,
                              None, FALSE),
                     NoRelationship, FALSE, FALSE),
               Field(<<"p", "o", "s", "t", "s">>,
                     DataType("array", NoEnum, NoValidation, None, TRUE),
                     Relationship("oneToMany", <<"P", "o", "s", "t">>, Some(<<"a", "u", "t", "h", "o", "r", "I", "d">>), None),
                     FALSE, FALSE)>>)),
           WithTimestamps(Entity(<<"P", "o", "s", "t">>,
             <<Field(<<"i", "d">>, WithFormat(PlainType("string"), "uuid"),
                     NoRelationship, TRUE, TRUE),
               Field(<<"t", "i", "t", "l", "e">>,
                     DataType("string", NoEnum,
                              Validation(Some(1), Some(200), NoNum, NoNum),
                              None, FALSE),
                     NoRelationship, FALSE, FALSE),
               Field(<<"c", "o", "n", "t", "e", "n", "t">>, PlainType("string"), NoRelationship, FALSE, FALSE),
               Field(<<"p", "u", "b", "l", "i", "s", "h", "e", "d">>, PlainType("boolean"), NoRelationship,
                     FALSE, FALSE),
               Field(<<"a", "u", "t", "h", "o", "r", "I", "d">>, WithFormat(PlainType("string"), "uuid"),
                     NoRelationship, FALSE, FALSE),
               Field(<<"a", "u", "t", "h", "o", "r">>, PlainType("object"),
                     Relationship("manyToOne", <<"U", "s", "e", "r">>, Some(<<"a", "u", "t", "h", "o", "r", "I", "d">>), None),
                     FALSE, FALSE)>>))>>),
    Some(<<EnumDefinition(<<"U", "s", "e", "r", "R", "o", "l", "e">>,
                          <<<<"A", "D", "M", "I", "N">>,
                            <<"U", "S", "E", "R">>,
                            <<"M", "O", "D", "E", "R", "A", "T", "O", "R">>>>)>>))

ExampleInput ==
  \E data \in {TreeDoc, StrictDoc, generateSample} :
    input = File(TRUE, ".json", TRUE, data)

InitInput ==
  \/ ExampleInput
  \/ RelationshipInput
  \/ KeyInput
  \/ EnumInput
  \/ NamingInput
  \/ ConstraintInput
  \/ StructuralInput
  \/ FileInput

\* no generator has run and nothing has been written
GeneratorsIdle ==
  /\ openapi = NotGenerated
  /\ asyncapi = NotGenerated
  /\ backend = NotGenerated
  /\ exception = NoException
  /\ written = <<>>

FullConfig == ProjectConfig(TRUE, "named", TRUE, Features(TRUE, TRUE, TRUE, TRUE))

Init ==
  /\ InitInput
  /\ strict \in BOOLEAN
  /\ pc = "validateDataModel"
  /\ calls = <<>>
  /\ loaderErrors = <<>>
  /\ thrown = NoError
  /\ result = NoResult
  /\ configResult = NoResult
  /\ config = FullConfig
  /\ options = Options("generate", <<"a", "l", "l">>, FALSE)
  /\ GeneratorsIdle

Spec == Init /\ [][Next]_vars

(***************************************************************************)
(* The explored runs of the generate command: every configuration file and *)
(* every option on the documents written out in full, and the full         *)
(* configuration with `generate all` on three families of documents and on *)
(* the files of FileInput.                                                 *)
(***************************************************************************)
FeatureSets ==
  {NoFeatures} \cup
  {Features(authentication, asyncApi, docker, testing) :
     authentication \in BOOLEAN, asyncApi \in BOOLEAN,
     docker \in BOOLEAN, testing \in BOOLEAN}

ConfigFiles ==
  {ProjectConfig(FALSE, "absent", FALSE, NoFeatures)} \cup
  {ProjectConfig(TRUE, project, database, features) :
     project \in {"absent", "unnamed", "named"},
     database \in BOOLEAN,
     features \in FeatureSets}

ConfigInput ==
  /\ \E data \in {StrictDoc, generateSample} : input = File(TRUE, ".json", TRUE, data)
  /\ config \in ConfigFiles
  /\ \/ \E type \in GenerationTypes \cup {<<"A", "L", "L">>, <<"a", "p", "i">>}, dryRun \in BOOLEAN :
          options = Options("generate", type, dryRun)
     \/ \E type \in GenerationTypes \cup {<<"A", "L", "L">>, <<"a", "p", "i">>} :
          options = Options("preview", type, FALSE)

\* documents whose entity and enum names meet each other, the keys derived
\* from them, or the keys of the shared schemas
CollisionNames ==
  {NameA, NameB, <<"A", "b">>, <<"A", "B">>, <<"C", "r", "e", "a", "t", "e", "A", "D", "t", "o">>, <<"A", "E", "v", "e", "n", "t">>, PaginationMetaKey,
   <<"A", "u", "t", "h">>}

CollisionFields ==
  {Field(<<"x">>, PlainType("string"), NoRelationship, FALSE, FALSE),
   Field(<<"y">>, Required(PlainType("number")), NoRelationship, FALSE, FALSE)}

CollisionEnumLists ==
  {None,
   Some(<<EnumDefinition(NameA, <<<<"V">>>>)>>),
   Some(<<EnumDefinition(EnumR, <<<<"V">>>>)>>)}

CollisionInput ==
  \E enums \in CollisionEnumLists :
    InputFrom(<<CollisionNames>>, <<IdField>>, CollisionFields, FALSE, enums)

\* documents of fields of every kind, format and length that decides the
\* column type
ColumnFields ==
  {Field(<<"s">>, dataType, NoRelationship, FALSE, FALSE) :
     dataType \in
       {PlainType("string"),
        WithFormat(PlainType("string"), "uuid"),
        WithFormat(PlainType("string"), "email"),
        DataType("string", NoEnum, Validation(NoNum, Some(0), NoNum, NoNum), None, FALSE),
        DataType("string", NoEnum, Validation(NoNum, Some(255), NoNum, NoNum), None, FALSE),
        DataType("string", NoEnum, Validation(NoNum, Some(256), NoNum, NoNum), None, FALSE),
        DataType("string", NoEnum, Validation(Some(1), NoNum, NoNum, NoNum), None, FALSE),
        PlainType("number"),
        WithFormat(PlainType("number"), "int32"),
        WithFormat(PlainType("number"), "int64"),
        PlainType("boolean"),
        PlainType("date"),
        WithFormat(PlainType("date"), "date"),
        PlainType("array"),
        PlainType("object"),
        DataType("enum", EnumArray(<<EnumR>>), NoValidation, None, FALSE),
        DataType("enum", EnumArray(<<EnumR, EnumS>>), NoValidation, None, FALSE)}}

ColumnInput ==
  InputFrom(<<{NameA}, {NameB}, {NameC}>>, <<IdField>>, ColumnFields, TRUE, None)

\* documents of fields that are required, keys, generated or relationships
DtoFields ==
  {Field(<<"x">>, Required(PlainType("string")), NoRelationship, FALSE, FALSE),
   Field(<<"x">>, PlainType("number"), NoRelationship, FALSE, FALSE),
   Field(<<"k">>, Required(PlainType("string")), NoRelationship, TRUE, FALSE),
   Field(<<"g">>, Required(PlainType("string")), NoRelationship, FALSE, TRUE),
   Field(<<"r">>, Required(PlainType("object")),
         Relationship("manyToOne", NameA, Some(<<"k">>), None), FALSE, FALSE),
   Field(<<"d">>,
         Required(DataType("string", NoEnum, Validation(Some(1), Some(9), NoNum, NoNum),
                           Some(<<"d">>), FALSE)),
         NoRelationship, FALSE, FALSE)}

DtoInput ==
  InputFrom(<<{NameA}, {NameB}, {NameC}>>, <<IdField>>, DtoFields, TRUE, None)

\* documents of fields whose declared type depends on the relationship
\* target, on the items of an array and on the form of an enum
TypeFields ==
  {Field(<<"t">>, dataType, Relationship("oneToMany", NameA, Some(<<"k">>), None), FALSE, FALSE) :
     dataType \in {WithItems(PlainType("array"), ItemType("string", NoEnum)),
                   PlainType("array")}}
  \cup
  {Field(<<"t">>, dataType, Relationship("manyToOne", NameA, Some(<<"k">>), None), FALSE, FALSE) :
     dataType \in {PlainType("object"), PlainType("string")}}
  \cup
  {Field(<<"t">>, WithItems(PlainType("array"), items), NoRelationship, FALSE, FALSE) :
     items \in {ItemType("string", NoEnum), ItemType("date", NoEnum),
                ItemType("array", NoEnum), ItemType("enum", NoEnum),
                ItemType("enum", EnumArray(<<EnumR, EnumS>>))}}
  \cup
  {Field(<<"t">>, DataType("enum", enum, NoValidation, None, FALSE), NoRelationship, FALSE, FALSE) :
     enum \in {NoEnum, EnumArray(<<>>)}}

TypeInput ==
  InputFrom(<<{NameA}, {NameB}, {NameC}>>, <<IdField>>, TypeFields, TRUE, None)

\* documents of entities whose names end as the plural rules tell apart
RouteNames ==
  {NameA, <<"A", "y">>, <<"A", "s">>, <<"A", "s", "h">>, <<"A", "c", "h">>, <<"C", "a", "t", "e", "g", "o", "r", "y">>}

RouteInput ==
  InputFrom(<<RouteNames>>, <<IdField>>,
            {Field(<<"x">>, PlainType("string"), NoRelationship, FALSE, FALSE)},
            TRUE, None)

GenInitInput ==
  \/ ConfigInput
  \/ /\ \/ CollisionInput
        \/ ColumnInput
        \/ DtoInput
        \/ TypeInput
        \/ RouteInput
        \/ FileInput
     /\ config = FullConfig
     /\ options = Options("generate", <<"a", "l", "l">>, FALSE)

GenInit ==
  /\ GenInitInput
  /\ strict = FALSE
  /\ pc = "execute"
  /\ calls = <<>>
  /\ loaderErrors = <<>>
  /\ thrown = NoError
  /\ result = NoResult
  /\ configResult = NoResult
  /\ GeneratorsIdle

GenSpec == GenInit /\ [][GenNext]_vars

(***************************************************************************)
(* ValidateCommand.validateBusinessRules called on a model of any          *)
(* relationship graph.  The command itself calls it on models the loader   *)
(* has accepted, whose relationship targets all exist; the method does not *)
(* depend on that, and here it is applied to graphs of every entity order, *)
(* with targets that name no entity included.                              *)
(***************************************************************************)
GraphFields ==
  {Field(<<"r">>, PlainType("object"),
         Relationship(type, target, Some(<<"k">>), Some(<<"t">>)), FALSE, FALSE) :
     type \in {"manyToOne", "oneToMany", "manyToMany"},
     target \in {NameA, NameB, NameC, NameZ}}

GraphInput ==
  InputFrom(<<{NameA, NameB, NameC}>>, <<IdField>>, GraphFields, TRUE, None)

CycleInit ==
  /\ GraphInput
  /\ strict = FALSE
  /\ pc = "validateBusinessRulesCommand"
  /\ calls = <<>>
  /\ loaderErrors = <<>>
  /\ thrown = NoError
  /\ result = NoResult
  /\ configResult = NoResult
  /\ config = FullConfig
  /\ options = Options("generate", <<"a", "l", "l">>, FALSE)
  /\ GeneratorsIdle

CycleNext == ValidateBusinessRules

CycleSpec == CycleInit /\ [][CycleNext]_vars

(***************************************************************************)
(* Properties.                                                             *)
(***************************************************************************)
\* positions in the run
SchemaRan == "schema" \in Range(calls)

LoaderRan == "business" \in Range(calls)

CommandPassesRan == pc \in {"setValid", "done"} /\ LoaderRan /\ ~thrown.raised

\* the fields of the document, as <<entity index, field index>>
FieldsIn(data) ==
  UNION {{<<e, f>> : f \in 1..Len(EntitiesOf(data)[e].fields)} :
           e \in 1..Len(EntitiesOf(data))}

EntityAt(data, ef) == EntitiesOf(data)[ef[1]]

FieldAt(data, ef) == EntitiesOf(data)[ef[1]].fields[ef[2]]

EntityNamesIn(data) == {EntitiesOf(data)[e].name : e \in 1..Len(EntitiesOf(data))}

EnumNamesIn(data) == {EnumsOf(data)[n].name : n \in 1..Len(EnumsOf(data))}

(* C1: structural validation runs before business-rule validation, and a   *)
(* structural failure ends the load at once: the business rules are        *)
(* entered only directly after a schema pass that found no violation.      *)
C1_SchemaBeforeBusiness ==
  /\ \A i \in 1..Len(calls) :
       calls[i] = "business" =>
         /\ i > 1
         /\ calls[i - 1] = "schema"
         /\ SchemaErrors(input.data) = <<>>
  /\ (SchemaRan /\ SchemaErrors(input.data) # <<>>) =>
       /\ thrown.raised
       /\ thrown.origin = "schema"
       /\ pc \in {"catch", "done"}
       /\ ~LoaderRan

\* a structurally invalid document that also breaks business rules has
\* failed with only the schema pass entered
C1_Witness ==
  /\ pc = "done"
  /\ calls = <<"schema">>
  /\ thrown.origin = "schema"
  /\ LoaderBusinessErrors(input.data) # <<>>

\* the relationship fields whose target names no entity of the document
MissingTargetFields(data) ==
  {ef \in FieldsIn(data) :
     /\ FieldAt(data, ef).relationship.present
     /\ FieldAt(data, ef).relationship.target \notin EntityNamesIn(data)}

TargetMessage(data, ef) ==
  Msg("relationship target does not exist", EntityAt(data, ef).name,
      FieldAt(data, ef).name, FieldAt(data, ef).relationship.target)

\* errors holds one target message per relationship field with a missing
\* target, and no other target message
TargetErrorsExact(data, errors) ==
  /\ \A ef \in FieldsIn(data) :
       FieldAt(data, ef).relationship.present =>
         Count(errors, TargetMessage(data, ef)) =
           Cardinality({other \in MissingTargetFields(data) :
                          TargetMessage(data, other) = TargetMessage(data, ef)})
  /\ \A i \in 1..Len(errors) :
       errors[i].kind = "relationship target does not exist" =>
         \E ef \in MissingTargetFields(data) : errors[i] = TargetMessage(data, ef)

(* C2: every relationship field whose target is not an entity name yields  *)
(* exactly one error "Entity E.field: relationship target 'T' does not     *)
(* exist"; a field whose target exists (itself, or an entity declared      *)
(* later) yields none.                                                     *)
C2_MissingTargetOneError ==
  /\ LoaderRan =>
       /\ TargetErrorsExact(input.data, loaderErrors)
       /\ thrown.raised => thrown.items = loaderErrors
  /\ CommandPassesRan => TargetErrorsExact(input.data, result.errors)

\* a document with a missing target, a self-reference and a reference to an
\* entity declared later has been through the business rules
C2_Witness ==
  /\ LoaderRan
  /\ MissingTargetFields(input.data) # {}
  /\ \E ef \in FieldsIn(input.data) :
       /\ FieldAt(input.data, ef).relationship.present
       /\ FieldAt(input.data, ef).relationship.target = EntityAt(input.data, ef).name
  /\ \E ef \in FieldsIn(input.data) :
       /\ FieldAt(input.data, ef).relationship.present
       /\ \E later \in (ef[1] + 1)..Len(EntitiesOf(input.data)) :
            /\ EntitiesOf(input.data)[later].name =
                 FieldAt(input.data, ef).relationship.target
            /\ \A e \in 1..ef[1] :
                 EntitiesOf(input.data)[e].name #
                   FieldAt(input.data, ef).relationship.target

MissingKeyKinds ==
  {"relationship requires foreignKey", "manyToMany relationship requires joinTable"}

\* the relationship fields that lack the key their type asks for
MissingKeyFields(data) ==
  {ef \in FieldsIn(data) :
     LET rel == FieldAt(data, ef).relationship
     IN /\ rel.present
        /\ \/ rel.type = "manyToMany" /\ ~TruthyStr(rel.joinTable)
           \/ rel.type \in {"oneToOne", "manyToOne"} /\ ~TruthyStr(rel.foreignKey)}

(* C3: a manyToMany relationship without joinTable and a oneToOne or       *)
(* manyToOne relationship without foreignKey are warnings, never errors:   *)
(* the loader's error list never holds a message about them.               *)
C3_MissingKeyIsWarning ==
  \A i \in 1..Len(loaderErrors) : loaderErrors[i].kind \notin MissingKeyKinds

\* the enum fields whose enum array is one non-empty name that is not a
\* defined enum
UndefinedEnumReferences(data) ==
  {ef \in FieldsIn(data) :
     LET dataType == FieldAt(data, ef).dataType
     IN /\ dataType.type = "enum"
        /\ dataType.enum.kind = "array"
        /\ Len(dataType.enum.elems) = 1
        /\ dataType.enum.elems[1] # <<>>
        /\ dataType.enum.elems[1] \notin EnumNamesIn(data)}

(* C4: an enum field whose enum array is a single string that names no     *)
(* EnumDefinition of the model yields an error: validation of such a       *)
(* document never finishes with an empty error list.                       *)
C4_UndefinedEnumReferenceIsError ==
  (pc = "done" /\ UndefinedEnumReferences(input.data) # {}) =>
    result.errors # <<>>

\* the entities without any primary-key field
EntitiesWithoutKey(data) ==
  {e \in 1..Len(EntitiesOf(data)) :
     \A f \in 1..Len(EntitiesOf(data)[e].fields) :
       ~EntitiesOf(data)[e].fields[f].isPrimaryKey}

KeyMessage(name) == Msg("must have at least one primary key field", name, <<>>, <<>>)

\* errors holds one primary-key message per entity without primary key,
\* naming it, and none for any other entity
KeyErrorsExact(data, errors) ==
  /\ \A e \in 1..Len(EntitiesOf(data)) :
       Count(errors, KeyMessage(EntitiesOf(data)[e].name)) =
         Cardinality({other \in EntitiesWithoutKey(data) :
                        EntitiesOf(data)[other].name = EntitiesOf(data)[e].name})
  /\ \A i \in 1..Len(errors) :
       errors[i].kind = "must have at least one primary key field" =>
         \E e \in EntitiesWithoutKey(data) :
           errors[i] = KeyMessage(EntitiesOf(data)[e].name)

(* C5: an entity with no isPrimaryKey field yields one error naming the    *)
(* entity and "primary key"; an entity with a primary-key field yields     *)
(* none.                                                                   *)
C5_NoPrimaryKeyIsError ==
  /\ LoaderRan =>
       /\ KeyErrorsExact(input.data, loaderErrors)
       /\ thrown.raised => thrown.items = loaderErrors
  /\ CommandPassesRan => KeyErrorsExact(input.data, result.errors)

\* a document with an entity without primary key next to one whose primary
\* key is not its first field has been through the business rules
C5_Witness ==
  /\ LoaderRan
  /\ EntitiesWithoutKey(input.data) # {}
  /\ \E e \in 1..Len(EntitiesOf(input.data)) :
       /\ Len(EntitiesOf(input.data)[e].fields) >= 2
       /\ ~EntitiesOf(input.data)[e].fields[1].isPrimaryKey
       /\ EntitiesOf(input.data)[e].fields[2].isPrimaryKey
  /\ Len(loaderErrors) >= 1

\* the entities with two or more generated primary keys
EntitiesWithGeneratedKeys(data) ==
  {e \in 1..Len(EntitiesOf(data)) :
     Cardinality({f \in 1..Len(EntitiesOf(data)[e].fields) :
                    /\ EntitiesOf(data)[e].fields[f].isPrimaryKey
                    /\ EntitiesOf(data)[e].fields[f].isGenerated}) >= 2}

(* C6: an entity with two or more generated primary keys is an error in    *)
(* every validation path: the loader never returns a model holding one.    *)
C6_GeneratedKeysRejectedByLoader ==
  pc = "loaded" => EntitiesWithGeneratedKeys(input.data) = {}

\* the entities holding two fields of the same name
EntitiesWithDuplicateFields(data) ==
  {e \in 1..Len(EntitiesOf(data)) :
     \E f, g \in 1..Len(EntitiesOf(data)[e].fields) :
       /\ f # g
       /\ EntitiesOf(data)[e].fields[f].name = EntitiesOf(data)[e].fields[g].name}

(* C7: field names are unique within an entity in every accepted model:    *)
(* the loader never returns a model with a duplicate field name.           *)
C7_DuplicateFieldsRejectedByLoader ==
  pc = "loaded" => EntitiesWithDuplicateFields(input.data) = {}

\* the only defects of the file are names that break a naming convention
OnlyNamingDefects ==
  /\ input.exists
  /\ input.wellFormed
  /\ input.ext \in {".json", ".yaml", ".yml"}
  /\ SchemaErrors(input.data) # <<>>
  /\ \A i \in 1..Len(SchemaErrors(input.data)) :
       /\ SchemaErrors(input.data)[i].key = "name"
       /\ SchemaErrors(input.data)[i].message = "must match pattern"
  /\ LoaderBusinessErrors(input.data) = <<>>
  /\ validateEntityRelationships(input.data).errors = <<>>
  /\ validateEntityFields(input.data, strict).errors = <<>>

(* C8: naming-convention violations are warnings only: a model whose only  *)
(* defect is such a name is loaded and validated with zero errors.         *)
C8_NamingIsWarningOnly ==
  (pc = "done" /\ OnlyNamingDefects) => (result.valid /\ result.errors = <<>>)

(* C9, as stated: validateBusinessRules never throws.                      *)
C9_NeverThrows == ~(thrown.raised /\ thrown.origin = "business")

\* the number of violations of the loader's rules, counted rule by rule
LoaderViolationCount(data) ==
  Cardinality({e \in 1..Len(EntitiesOf(data)) :
                 \E d \in 1..(e - 1) :
                   EntitiesOf(data)[d].name = EntitiesOf(data)[e].name})
  + Cardinality(MissingTargetFields(data))
  + Cardinality(MissingKeyFields(data))
  + Cardinality(EntitiesWithoutKey(data))

(* C9, amended: validateBusinessRules never throws in the middle of a      *)
(* pass: it evaluates every rule and accumulates every message; the        *)
(* loader's validateBusinessRules then throws one Error carrying the whole *)
(* list exactly when the list is not empty and returns normally otherwise; *)
(* the command's validateBusinessRules never throws and adds no error.     *)
C9_ThrowsOnceAfterFullPass ==
  /\ LoaderRan =>
       /\ Len(loaderErrors) = LoaderViolationCount(input.data)
       /\ (thrown.raised /\ thrown.origin = "business") <=> (loaderErrors # <<>>)
       /\ thrown.raised => (thrown.items = loaderErrors /\ pc \in {"catch", "done"})
       /\ ~thrown.raised =>
            pc \in {"loaded", "validateEntityFields", "validateNamingConventions",
                    "validateBusinessRulesCommand", "setValid", "done"}
  /\ pc = "setValid" =>
       /\ ~thrown.raised
       /\ result.errors = validateEntityRelationships(input.data).errors
                            \o validateEntityFields(input.data, strict).errors

\* a document that breaks two rules has made the loader throw both messages
C9_Witness ==
  /\ pc = "catch"
  /\ thrown.origin = "business"
  /\ Len(thrown.items) >= 2
  /\ MissingTargetFields(input.data) # {}
  /\ EntitiesWithoutKey(input.data) # {}

(* C10: a validation failure lists every violation on a line of its own    *)
(* (newline-joined), for a schema failure as for a business-rule failure.  *)
C10_OneViolationPerLine ==
  (thrown.raised /\ thrown.origin \in {"schema", "business"}
     /\ Len(thrown.items) > 1) =>
    /\ thrown.sep = "\n"
    /\ MessageLines(thrown) >= Len(thrown.items)

ParsePrefixes == {"Invalid JSON: ", "Invalid YAML: "}

\* the Error's message is that of a parse error: it begins with the prefix
\* of parseFromJson's or parseFromYaml's catch block
IsParseError(err) ==
  err.raised /\ err.prefixes # <<>> /\ err.prefixes[1] \in ParsePrefixes

(* C11: a parse error ("Invalid JSON" / "Invalid YAML") is raised only for *)
(* text that is not well-formed: a well-formed document that violates the  *)
(* schema or a business rule never fails with a parse error, through the   *)
(* JSON entry point and through the YAML entry point alike.                *)
C11_ParseErrorOnlyForMalformedText ==
  IsParseError(thrown) => ~input.wellFormed

CycleKind == "Potential circular relationship detected"

\* the entity names of the cycle warnings of a result
CycleWarningNames(res) ==
  {res.warnings[i].entity :
     i \in {j \in 1..Len(res.warnings) : res.warnings[j].kind = CycleKind}}

\* entity a has a relationship field of one of the types that targets entity b
LinkedBy(data, a, b, types) ==
  \E f \in 1..Len(EntitiesOf(data)[a].fields) :
    LET rel == EntitiesOf(data)[a].fields[f].relationship
    IN rel.present /\ rel.type \in types /\ rel.target = EntitiesOf(data)[b].name

FollowedTypes == RelationshipTypes \ {"oneToMany"}

\* the pairs of different entities linked in both directions by fields of a
\* type other than oneToMany
MutualPairs(data) ==
  {ab \in (1..Len(EntitiesOf(data))) \X (1..Len(EntitiesOf(data))) :
     /\ ab[1] # ab[2]
     /\ LinkedBy(data, ab[1], ab[2], FollowedTypes)
     /\ LinkedBy(data, ab[2], ab[1], FollowedTypes)}

\* the relationship fields of the document are oneToMany fields of one
\* entity a to another entity b, alone or with manyToOne fields of b back to a
OneToManyAlone(data) ==
  \E a, b \in 1..Len(EntitiesOf(data)) :
    /\ EntitiesOf(data)[a].name # EntitiesOf(data)[b].name
    /\ LinkedBy(data, a, b, {"oneToMany"})
    /\ \A ef \in FieldsIn(data) :
         LET rel == FieldAt(data, ef).relationship
         IN rel.present =>
              \/ ef[1] = a /\ rel.type = "oneToMany"
                           /\ rel.target = EntitiesOf(data)[b].name
              \/ ef[1] = b /\ rel.type = "manyToOne"
                           /\ rel.target = EntitiesOf(data)[a].name

(* C12: cycle detection ignores oneToMany edges and follows every other    *)
(* relationship type.  Two entities linked in both directions by fields of *)
(* a followed type (manyToOne, oneToOne, manyToMany) yield a cycle warning *)
(* that names an entity declared no later than both, hence one of the two  *)
(* in the model made of them; a oneToMany field from A to B alone, also    *)
(* when B has the inverse manyToOne field back to A, yields no cycle       *)
(* warning.                                                                *)
C12_CycleFollowsAllButOneToMany ==
  (CommandPassesRan /\ pc \in {"setValid", "done"}) =>
    /\ \A ab \in MutualPairs(input.data) :
         \E e \in 1..Min(ab[1], ab[2]) :
           EntitiesOf(input.data)[e].name \in CycleWarningNames(result)
    /\ OneToManyAlone(input.data) => CycleWarningNames(result) = {}

\* a model whose two entities hold manyToOne fields to each other has been
\* validated and carries a cycle warning naming one of them
C12_Witness ==
  /\ pc = "done"
  /\ CommandPassesRan
  /\ Len(EntitiesOf(input.data)) = 2
  /\ LinkedBy(input.data, 1, 2, {"manyToOne"})
  /\ LinkedBy(input.data, 2, 1, {"manyToOne"})
  /\ CycleWarningNames(result) \cap EntityNamesIn(input.data) # {}

StrictKinds ==
  {"missing field description", "string field should have maxLength constraint",
   "Enum value should be in UPPER_CASE"}

\* what the four passes of the command report on a loaded model when
\* options.strict is off
NonStrictReport(data) ==
  Join(Join(validateEntityRelationships(data), validateEntityFields(data, FALSE)),
       Join(validateNamingConventions(data, FALSE), validateBusinessRules(data)))

(* C13: strict mode only adds warnings.  The error list of a run is the    *)
(* one of the non-strict run on the same model, every non-strict warning   *)
(* is also in the strict run, and what a strict run adds are warnings of   *)
(* the three strict kinds: one for each field whose dataType has no        *)
(* description, one for each string field without maxLength, one for each  *)
(* enum value not matching ^[A-Z][A-Z0-9_]*$; a non-strict run has none of *)
(* them.                                                                   *)
C13_StrictOnlyAddsWarnings ==
  (pc = "done" /\ CommandPassesRan) =>
    LET base == NonStrictReport(input.data)
    IN /\ result.errors = base.errors
       /\ \A i \in 1..Len(base.warnings) :
            /\ Count(result.warnings, base.warnings[i]) >=
                 Count(base.warnings, base.warnings[i])
            /\ base.warnings[i].kind \notin StrictKinds
       /\ \A i \in 1..Len(result.warnings) :
            result.warnings[i] \notin Range(base.warnings) =>
              strict /\ result.warnings[i].kind \in StrictKinds
       /\ ~strict => \A i \in 1..Len(result.warnings) :
                       result.warnings[i].kind \notin StrictKinds
       /\ strict =>
            /\ \A ef \in FieldsIn(input.data) :
                 LET dataType == FieldAt(input.data, ef).dataType
                 IN /\ ~dataType.description.present =>
                         Msg("missing field description",
                             EntityAt(input.data, ef).name,
                             FieldAt(input.data, ef).name, <<>>)
                           \in Range(result.warnings)
                    /\ (/\ dataType.type = "string"
                        /\ ~(dataType.validation.present
                               /\ dataType.validation.maxLength.present)) =>
                         Msg("string field should have maxLength constraint",
                             EntityAt(input.data, ef).name,
                             FieldAt(input.data, ef).name, <<>>)
                           \in Range(result.warnings)
            /\ \A n \in 1..Len(EnumsOf(input.data)) :
                 \A k \in 1..Len(EnumsOf(input.data)[n].values) :
                   ~IsUpperCase(EnumsOf(input.data)[n].values[k]) =>
                     Msg("Enum value should be in UPPER_CASE",
                         EnumsOf(input.data)[n].name, <<>>,
                         EnumsOf(input.data)[n].values[k])
                       \in Range(result.warnings)

\* a strict run has finished on a model that has a field without
\* description, a string field without maxLength and an enum value in lower
\* case, and that also draws a warning in non-strict mode
C13_Witness ==
  /\ pc = "done"
  /\ CommandPassesRan
  /\ strict
  /\ NonStrictReport(input.data).warnings # <<>>
  /\ {result.warnings[i].kind : i \in 1..Len(result.warnings)} \cap StrictKinds
       = StrictKinds
  /\ Len(result.warnings) > Len(NonStrictReport(input.data).warnings)

\* the names an entity name has an edge to in the relationship graph built
\* from the fields of a type other than oneToMany
FollowedTargets(data, name) ==
  {FieldAt(data, ef).relationship.target :
     ef \in {x \in FieldsIn(data) :
               /\ EntityAt(data, x).name = name
               /\ FieldAt(data, x).relationship.present
               /\ FieldAt(data, x).relationship.type \in FollowedTypes}}

RECURSIVE ReachableWithin(_, _, _)

\* the names reached from the names in from by 1 to k edges
ReachableWithin(data, from, k) ==
  IF k = 0 THEN {}
  ELSE LET step == UNION {FollowedTargets(data, n) : n \in from}
       IN step \cup ReachableWithin(data, step, k - 1)

\* the entity name lies on a directed cycle of the graph
OnCycle(data, name) ==
  name \in ReachableWithin(data, {name}, Len(EntitiesOf(data)))

(* C20: each entity is named in at most one cycle warning of a run, and    *)
(* every entity named in a cycle warning lies on a directed cycle of the   *)
(* relationship graph built from the non-oneToMany edges.                  *)
C20_CycleWarningsNameCycleMembers ==
  (CommandPassesRan /\ pc \in {"setValid", "done"}) =>
    /\ \A i, j \in 1..Len(result.warnings) :
         (/\ i # j
          /\ result.warnings[i].kind = CycleKind
          /\ result.warnings[j].kind = CycleKind) =>
           result.warnings[i].entity # result.warnings[j].entity
    /\ \A name \in CycleWarningNames(result) : OnCycle(input.data, name)

\* the file handed to the command is the sample model, as written by the
\* sample command
SampleGiven ==
  /\ input.exists
  /\ input.wellFormed
  /\ input.ext = ".json"
  /\ input.data = generateSample

(* C19: the shipped User/Post sample model passes the whole validation     *)
(* pipeline in non-strict mode with zero errors and zero warnings: the     *)
(* loader does not throw, no pass pushes an error, no pass pushes a        *)
(* warning (no cycle warning for User.posts / Post.author, nothing for the *)
(* role field's enum reference), and the run ends with valid = true.       *)
C19_SampleValidatesClean ==
  (SampleGiven /\ ~strict) =>
    /\ ~thrown.raised
    /\ pc # "catch"
    /\ result.errors = <<>>
    /\ result.warnings = <<>>
    /\ pc = "done" => (result.valid /\ CommandPassesRan)

\* the non-strict run on the sample model has finished after all four passes
C19_Witness ==
  /\ SampleGiven
  /\ ~strict
  /\ pc = "done"
  /\ calls = <<"schema", "business">>
  /\ result.valid

\* the three generators of a run
GeneratorRuns == <<openapi, asyncapi, backend>>

\* the property access that makes each generator's try block fail
GeneratorFailures ==
  <<OpenAPIFailure(config), AsyncAPIFailure(config), NestJSFailure(config)>>

(* C14: generate() of the OpenAPI, the AsyncAPI and the backend generator  *)
(* never throws: a failure inside it is returned as success = false with   *)
(* no files and one non-empty error string, and a successful result has    *)
(* success = true and no errors.                                           *)
C14_GenerateNeverThrows ==
  \A g \in 1..3 :
    /\ ~GeneratorRuns[g].rejected
    /\ GeneratorRuns[g].returned =>
         IF GeneratorFailures[g] # <<>>
           THEN /\ ~GeneratorRuns[g].result.success
                /\ GeneratorRuns[g].result.files = <<>>
                /\ Len(GeneratorRuns[g].result.errors) = 1
                /\ GeneratorRuns[g].result.errors[1] # <<>>
           ELSE /\ GeneratorRuns[g].result.success
                /\ GeneratorRuns[g].result.errors = <<>>
                /\ GeneratorRuns[g].result.files # <<>>

\* a preview on a configuration without project: the OpenAPI and the
\* AsyncAPI generator have both failed inside and returned
C14_Witness ==
  /\ openapi.returned
  /\ ~openapi.result.success
  /\ asyncapi.returned
  /\ ~asyncapi.result.success
  /\ asyncapi.result.errors = <<TypeError("name")>>

\* the model was loaded, and the validate command finds no error in it
AcceptedByValidation(data) ==
  /\ SchemaErrors(data) = <<>>
  /\ LoaderBusinessErrors(data) = <<>>
  /\ NonStrictReport(data).errors = <<>>

\* the keys of the document's schemas that hold a schema built for an entity
EntitySchemaKeys(schemas) ==
  {key \in DOMAIN schemas :
     schemas[key].of \in {"entityToSchema", "entityToCreateDto", "entityToUpdateDto"}}

RECURSIVE OperationCount(_, _)

\* the number of operations under the path items of keys
OperationCount(paths, keys) ==
  IF keys = {} THEN 0
  ELSE LET key == CHOOSE k \in keys : TRUE
       IN Len(paths[key].operations) + OperationCount(paths, keys \ {key})

(* C15: for a model accepted by validation with N entities, the OpenAPI    *)
(* document holds for each entity E its own schemas E, CreateEDto and      *)
(* UpdateEDto and its own path entries /{lower(E)}s (list, create) and     *)
(* /{lower(E)}s/{id} (get, update, delete): 3N entity schemas, 2N path     *)
(* entries and 5N operations, none overwritten by another entity, an enum  *)
(* or a shared schema.                                                     *)
C15_EveryEntityKeepsSchemasAndPaths ==
  (openapi.returned /\ openapi.result.success /\ AcceptedByValidation(input.data)) =>
    LET entities == EntitiesOf(input.data)
        schemas == openapi.spec.schemas
        paths == openapi.spec.paths
    IN /\ \A e \in 1..Len(entities) :
            /\ entities[e].name \in DOMAIN schemas
            /\ schemas[entities[e].name] = entityToSchema(entities[e])
            /\ CreateDtoKey(entities[e].name) \in DOMAIN schemas
            /\ schemas[CreateDtoKey(entities[e].name)] = entityToCreateDto(entities[e])
            /\ UpdateDtoKey(entities[e].name) \in DOMAIN schemas
            /\ schemas[UpdateDtoKey(entities[e].name)] = entityToUpdateDto(entities[e])
            /\ EntityPath(entities[e]) \in DOMAIN paths
            /\ paths[EntityPath(entities[e])].operations =
                 <<generateOperation("list", entities[e]),
                   generateOperation("create", entities[e])>>
            /\ EntityIdPath(entities[e]) \in DOMAIN paths
            /\ paths[EntityIdPath(entities[e])].operations =
                 <<generateOperation("get", entities[e]),
                   generateOperation("update", entities[e]),
                   generateOperation("delete", entities[e])>>
       /\ Cardinality(EntitySchemaKeys(schemas)) = 3 * Len(entities)
       /\ Cardinality(DOMAIN paths) = 2 * Len(entities)
       /\ OperationCount(paths, DOMAIN paths) = 5 * Len(entities)
\* the AsyncAPI generator has returned a document
AsyncAPIDone == asyncapi.returned /\ asyncapi.result.success

\* the lifecycle channel keys of the entities of the model
LifecycleChannelKeys(data) ==
  {ChannelKey(EntitiesOf(data)[e].name, event) :
     e \in 1..Len(EntitiesOf(data)), event \in Range(LifecycleEvents)}

\* the last entity whose lower-cased name is that of the e-th entity
LastNamedLike(data, e) ==
  LET same == {d \in 1..Len(EntitiesOf(data)) :
                 toLowerCase(EntitiesOf(data)[d].name)
                   = toLowerCase(EntitiesOf(data)[e].name)}
  IN CHOOSE d \in same : \A c \in same : c <= d

\* the channel of the e-th entity for event is bound to the message that
\* was generated for the owner-th entity, which carries commonHeaders
BoundTo(data, e, event, owner) ==
  LET key == ChannelKey(EntitiesOf(data)[e].name, event)
      message == MessageKey(EntitiesOf(data)[owner].name, event)
  IN /\ key \in DOMAIN asyncapi.spec.channels
     /\ asyncapi.spec.channels[key].message = message
     /\ message \in DOMAIN asyncapi.spec.messages
     /\ asyncapi.spec.messages[message].name
          = EntitiesOf(data)[owner].name \o EventTitle(event)
     /\ "commonHeaders" \in asyncapi.spec.messages[message].traits
     /\ "commonHeaders" \in asyncapi.spec.messageTraits

SixChannels ==
  {<<"u", "s", "e", "r", ".", "c", "r", "e", "a", "t", "e", "d">>, <<"u", "s", "e", "r", ".", "u", "p", "d", "a", "t", "e", "d">>, <<"u", "s", "e", "r", ".", "d", "e", "l", "e", "t", "e", "d">>,
   <<"p", "o", "s", "t", ".", "c", "r", "e", "a", "t", "e", "d">>, <<"p", "o", "s", "t", ".", "u", "p", "d", "a", "t", "e", "d">>, <<"p", "o", "s", "t", ".", "d", "e", "l", "e", "t", "e", "d">>}

(* C16 as stated: the User/Post model yields the six channels              *)
(* user.created|updated|deleted and post.created|updated|deleted, and the  *)
(* channel set of every generated document is the three lifecycle channels *)
(* per entity, each bound to that entity's own message, which carries the  *)
(* commonHeaders trait.                                                    *)
C16_ChannelsAreLifecycleOnly ==
  AsyncAPIDone =>
    /\ input.data = generateSample => DOMAIN asyncapi.spec.channels = SixChannels
    /\ DOMAIN asyncapi.spec.channels = LifecycleChannelKeys(input.data)
    /\ \A e \in 1..Len(EntitiesOf(input.data)), event \in Range(LifecycleEvents) :
         BoundTo(input.data, e, event, e)

(* C16, amended: the User/Post model yields seven channels, the six        *)
(* lifecycle channels and system.health; the channel set of every          *)
(* generated document is the three lifecycle channels per entity plus      *)
(* system.health; a lifecycle channel is bound to the message generated    *)
(* for the last entity with that lower-cased name (the entity's own when   *)
(* no other entity shares it), which carries the commonHeaders trait, and  *)
(* system.health is bound to HealthCheckMessage.                           *)
C16_ChannelsAreLifecyclePlusHealth ==
  AsyncAPIDone =>
    /\ input.data = generateSample =>
         DOMAIN asyncapi.spec.channels = SixChannels \cup {<<"s", "y", "s", "t", "e", "m", ".", "h", "e", "a", "l", "t", "h">>}
    /\ DOMAIN asyncapi.spec.channels
         = LifecycleChannelKeys(input.data) \cup {<<"s", "y", "s", "t", "e", "m", ".", "h", "e", "a", "l", "t", "h">>}
    /\ \A e \in 1..Len(EntitiesOf(input.data)), event \in Range(LifecycleEvents) :
         BoundTo(input.data, e, event, LastNamedLike(input.data, e))
    /\ asyncapi.spec.channels[<<"s", "y", "s", "t", "e", "m", ".", "h", "e", "a", "l", "t", "h">>].message = <<"H", "e", "a", "l", "t", "h", "C", "h", "e", "c", "k", "M", "e", "s", "s", "a", "g", "e">>
    /\ <<"H", "e", "a", "l", "t", "h", "C", "h", "e", "c", "k", "M", "e", "s", "s", "a", "g", "e">> \in DOMAIN asyncapi.spec.messages

\* the document generated for the User/Post model: seven channels,
\* user.created bound to UserCreatedMessage
C16_Witness ==
  /\ AsyncAPIDone
  /\ input.data = generateSample
  /\ Cardinality(DOMAIN asyncapi.spec.channels) = 7
  /\ asyncapi.spec.channels[<<"u", "s", "e", "r", ".", "c", "r", "e", "a", "t", "e", "d">>].message = <<"U", "s", "e", "r", "C", "r", "e", "a", "t", "e", "d", "M", "e", "s", "s", "a", "g", "e">>

\* the names of the fields of entity that are neither primary key, nor
\* generated, nor relationship fields; and those of them that are required
DtoFieldNames(entity) ==
  {entity.fields[f].name :
     f \in {g \in 1..Len(entity.fields) :
              /\ ~entity.fields[g].isPrimaryKey
              /\ ~entity.fields[g].isGenerated
              /\ ~entity.fields[g].relationship.present}}

RequiredDtoFieldNames(entity) ==
  {entity.fields[f].name :
     f \in {g \in 1..Len(entity.fields) :
              /\ ~entity.fields[g].isPrimaryKey
              /\ ~entity.fields[g].isGenerated
              /\ ~entity.fields[g].relationship.present
              /\ entity.fields[g].dataType.required}}

\* the document holds the create and the update DTO built for entity
HoldsDtosOf(entity) ==
  /\ openapi.returned
  /\ openapi.result.success
  /\ openapi.spec.schemas[CreateDtoKey(entity.name)].of = "entityToCreateDto"
  /\ openapi.spec.schemas[CreateDtoKey(entity.name)].name = entity.name
  /\ openapi.spec.schemas[UpdateDtoKey(entity.name)].of = "entityToUpdateDto"
  /\ openapi.spec.schemas[UpdateDtoKey(entity.name)].name = entity.name

(* C17: Update{Entity}Dto is Create{Entity}Dto with every field optional:  *)
(* both schemas have the same properties, those of the entity's fields     *)
(* that are neither primary key, nor generated, nor relationship fields,   *)
(* and the update schema's required list is empty whatever the create      *)
(* schema requires.                                                        *)
C17_UpdateDtoIsOptionalCreateDto ==
  \A e \in 1..Len(EntitiesOf(input.data)) :
    HoldsDtosOf(EntitiesOf(input.data)[e]) =>
      LET entity == EntitiesOf(input.data)[e]
          create == openapi.spec.schemas[CreateDtoKey(entity.name)]
          update == openapi.spec.schemas[UpdateDtoKey(entity.name)]
      IN /\ DOMAIN create.properties = DtoFieldNames(entity)
         /\ DOMAIN update.properties = DtoFieldNames(entity)
         /\ update.properties = create.properties
         /\ Range(create.required) = RequiredDtoFieldNames(entity)
         /\ update.required = <<>>

\* an entity with a key, a relationship field and a required plain field:
\* the create DTO requires the plain field, the update DTO nothing
C17_Witness ==
  \E e \in 1..Len(EntitiesOf(input.data)) :
    /\ HoldsDtosOf(EntitiesOf(input.data)[e])
    /\ openapi.spec.schemas[CreateDtoKey(EntitiesOf(input.data)[e].name)].required # <<>>
    /\ openapi.spec.schemas[UpdateDtoKey(EntitiesOf(input.data)[e].name)].required = <<>>
    /\ \E f \in 1..Len(EntitiesOf(input.data)[e].fields) :
         EntitiesOf(input.data)[e].fields[f].relationship.present
    /\ \E f \in 1..Len(EntitiesOf(input.data)[e].fields) :
         EntitiesOf(input.data)[e].fields[f].isPrimaryKey

\* the column type the mapping is stated to give
StatedColumnType(dataType) ==
  CASE dataType.type = "string" ->
         IF dataType.format.present /\ dataType.format.value = "uuid" THEN "uuid"
         ELSE IF /\ dataType.validation.present
                 /\ dataType.validation.maxLength.present
                 /\ dataType.validation.maxLength.value <= 255
                THEN "varchar"
                ELSE "text"
    [] dataType.type = "number" ->
         IF dataType.format.present /\ dataType.format.value = "int32" THEN "int"
         ELSE IF dataType.format.present /\ dataType.format.value = "int64"
                THEN "bigint"
                ELSE "decimal"
    [] dataType.type = "boolean" -> "boolean"
    [] dataType.type = "date" ->
         IF dataType.format.present /\ dataType.format.value = "date"
           THEN "date" ELSE "timestamp"
    [] dataType.type \in {"array", "object"} -> "json"
    [] dataType.type = "enum" -> "enum"

\* the fields of entity that get a @Column decorator, in order
ColumnFieldsOf(entity) ==
  ConcatMap(Len(entity.fields), LAMBDA f :
    IF entity.fields[f].relationship.present \/ entity.fields[f].isPrimaryKey
      THEN <<>> ELSE <<entity.fields[f]>>)

(* C18: toColumnType maps string to 'uuid' if format is uuid, otherwise to *)
(* 'varchar' if validation.maxLength is set and <= 255, otherwise to       *)
(* 'text'; number to 'int' for int32, 'bigint' for int64, otherwise        *)
(* 'decimal'; boolean to 'boolean'; date to 'date' if format is date,      *)
(* otherwise 'timestamp'; array and object to 'json'; enum to 'enum'.      *)
C18_ColumnTypesAsStated ==
  (backend.returned /\ backend.result.success) =>
    \A e \in 1..Len(EntitiesOf(input.data)) :
      LET fields == ColumnFieldsOf(EntitiesOf(input.data)[e])
          columns == backend.spec[e].columns
      IN /\ Len(columns) = Len(fields)
         /\ \A c \in 1..Len(columns) :
              /\ columns[c].name = fields[c].name
              /\ columns[c].type = StatedColumnType(fields[c].dataType)

\* the names from which the entity name is reached by one or more edges of
\* the graph built from the fields of a type other than oneToMany
ReachesCycleThrough(data, from, name) ==
  name \in ReachableWithin(data, {from}, Len(EntitiesOf(data)))

(* C21: cycle detection covers every cycle, whatever the component         *)
(* structure and the entity order: for every directed cycle of the graph   *)
(* of the non-oneToMany relationships, a cycle warning is emitted that     *)
(* names an entity lying on that cycle or from which that cycle is         *)
(* reachable, also after an earlier search has returned with a cycle       *)
(* found.                                                                  *)
C21_EveryCycleIsCovered ==
  (CommandPassesRan /\ pc \in {"setValid", "done"}) =>
    \A n \in EntityNamesIn(input.data) :
      OnCycle(input.data, n) =>
        \E w \in CycleWarningNames(result) :
          ReachesCycleThrough(input.data, w, n)

\* a model with two cycles, neither reachable from the other, has been
\* validated: the second cycle is met after the search from the first
\* entity has returned with a cycle found, and each has its own warning
C21_Witness ==
  /\ pc = "done"
  /\ CommandPassesRan
  /\ \E a, b \in EntityNamesIn(input.data) :
       /\ a # b
       /\ OnCycle(input.data, a) /\ OnCycle(input.data, b)
       /\ ~ReachesCycleThrough(input.data, a, b)
       /\ ~ReachesCycleThrough(input.data, b, a)
       /\ {a, b} \subseteq CycleWarningNames(result)

\* both documents hold the schema built for entity under the entity's name
HoldsSchemasOf(entity) ==
  /\ openapi.returned /\ openapi.result.success
  /\ asyncapi.returned /\ asyncapi.result.success
  /\ entity.name \in DOMAIN openapi.spec.schemas
  /\ entity.name \in DOMAIN asyncapi.spec.schemas
  /\ openapi.spec.schemas[entity.name].of = "entityToSchema"
  /\ asyncapi.spec.schemas[entity.name].of = "entityToAsyncAPISchema"

(* C22: toAsyncAPIProperty mirrors toOpenAPIProperty exactly: for every    *)
(* DataType both mappers return the same property object, so the property  *)
(* of a field in the entity's AsyncAPI schema equals the property of that  *)
(* field in the entity's OpenAPI schema.                                   *)
C22_MappersAgree ==
  \A e \in 1..Len(EntitiesOf(input.data)) :
    HoldsSchemasOf(EntitiesOf(input.data)[e]) =>
      LET name == EntitiesOf(input.data)[e].name
      IN asyncapi.spec.schemas[name].properties
           = openapi.spec.schemas[name].properties

\* the fields of entity whose property the entity's schema holds: the last
\* field of each name among those that are not relationship fields
SchemaFieldsOf(entity) ==
  {f \in 1..Len(entity.fields) :
     /\ ~entity.fields[f].relationship.present
     /\ \A g \in 1..Len(entity.fields) :
          (g > f /\ entity.fields[g].name = entity.fields[f].name) =>
            entity.fields[g].relationship.present}

\* the OpenAPI document holds the schema built for entity under its name
HoldsOpenAPISchemaOf(entity) ==
  /\ openapi.returned /\ openapi.result.success
  /\ entity.name \in DOMAIN openapi.spec.schemas
  /\ openapi.spec.schemas[entity.name].of = "entityToSchema"
  /\ openapi.spec.schemas[entity.name].name = entity.name

(* C23: toOpenAPIProperty maps an enum DataType given as an inline array   *)
(* of values to {type: 'string', enum: values}, and an enum DataType in    *)
(* the single-element reference form (an array of exactly one name) to     *)
(* {$ref: '#/components/schemas/{name}'} with no inline enum list.         *)
C23_EnumInlineOrReference ==
  \A e \in 1..Len(EntitiesOf(input.data)) :
    HoldsOpenAPISchemaOf(EntitiesOf(input.data)[e]) =>
      LET entity == EntitiesOf(input.data)[e]
          properties == openapi.spec.schemas[entity.name].properties
      IN \A f \in SchemaFieldsOf(entity) :
           LET dataType == entity.fields[f].dataType
               property == properties[entity.fields[f].name]
           IN (dataType.type = "enum" /\ dataType.enum.kind = "array") =>
                IF Len(dataType.enum.elems) = 1
                  THEN /\ property.ref = Some(dataType.enum.elems[1])
                       /\ property.enum = NoEnum
                  ELSE /\ property.type = "string"
                       /\ property.enum = dataType.enum
                       /\ property.ref = None

\* 'v1' | 'v2' | ...
QuotedUnion(values) ==
  LET acc[i \in 0..Len(values)] ==
        IF i = 0 THEN <<>>
        ELSE (IF i = 1 THEN <<>> ELSE acc[i - 1] \o <<" ", "|", " ">>)
             \o <<"'">> \o values[i] \o <<"'">>
  IN acc[Len(values)]

\* the type stated for a data type that is not an array
StatedScalarType(type, enum) ==
  CASE type = "string" -> <<"s", "t", "r", "i", "n", "g">>
    [] type = "number" -> <<"n", "u", "m", "b", "e", "r">>
    [] type = "boolean" -> <<"b", "o", "o", "l", "e", "a", "n">>
    [] type = "date" -> <<"D", "a", "t", "e">>
    [] type = "object" -> <<"o", "b", "j", "e", "c", "t">>
    [] type = "enum" ->
         IF enum.kind = "array" THEN QuotedUnion(enum.elems) ELSE <<"s", "t", "r", "i", "n", "g">>

\* the type stated for a field: the target when the field has one, as an
\* array when the field's own type is array; otherwise that of the data type
StatedLanguageType(field) ==
  IF field.relationship.present
    THEN IF field.dataType.type = "array"
           THEN field.relationship.target \o <<"[", "]">>
           ELSE field.relationship.target
    ELSE IF field.dataType.type = "array"
           THEN IF ~field.dataType.hasItems THEN <<"a", "n", "y", "[", "]">>
                ELSE IF field.dataType.items.type = "array" THEN <<"a", "n", "y", "[", "]", "[", "]">>
                ELSE StatedScalarType(field.dataType.items.type,
                                      field.dataType.items.enum) \o <<"[", "]">>
           ELSE StatedScalarType(field.dataType.type, field.dataType.enum)

\* the backend generator has returned the entity classes of the model
BackendDone == backend.returned /\ backend.result.success

(* C24: toLanguageType treats a relationship target as authoritative: with *)
(* a target the declared type of a field is Target[] if the field's own    *)
(* dataType is array and Target otherwise, whatever the items type;        *)
(* without a target string, number, boolean, date and object map to        *)
(* string, number, boolean, Date and object, array maps to its item type   *)
(* followed by [] (any[] when items is absent), and enum maps to the union *)
(* of its quoted literal values when it is given as an array and to string *)
(* otherwise.                                                              *)
C24_TargetIsAuthoritative ==
  BackendDone =>
    \A e \in 1..Len(EntitiesOf(input.data)) :
      LET entity == EntitiesOf(input.data)[e]
          declared == backend.spec[e].fields
      IN /\ Len(declared) = Len(entity.fields)
         /\ \A f \in 1..Len(entity.fields) :
              /\ declared[f].name = entity.fields[f].name
              /\ declared[f].type = StatedLanguageType(entity.fields[f])

\* the entity classes of a model hold a to-many relationship field whose
\* items are strings, declared as an array of the target, and an array of
\* strings without a target, declared as string[]
C24_Witness ==
  /\ BackendDone
  /\ \E e \in 1..Len(EntitiesOf(input.data)) :
       \E f, g \in 1..Len(EntitiesOf(input.data)[e].fields) :
         LET first == EntitiesOf(input.data)[e].fields[f]
             second == EntitiesOf(input.data)[e].fields[g]
         IN /\ first.relationship.present
            /\ first.dataType.type = "array"
            /\ first.dataType.hasItems
            /\ first.dataType.items.type = "string"
            /\ backend.spec[e].fields[f].type = first.relationship.target \o <<"[", "]">>
            /\ ~second.relationship.present
            /\ second.dataType = first.dataType
            /\ backend.spec[e].fields[g].type = <<"s", "t", "r", "i", "n", "g", "[", "]">>

\* no entity name lies on a directed cycle of the graph built from the
\* fields of a type other than oneToMany
Acyclic(data) == \A n \in EntityNamesIn(data) : ~OnCycle(data, n)

(* C25: cycle detection is sound on acyclic input: when the relationship   *)
(* graph has no directed cycle once oneToMany edges are excluded, no cycle *)
(* warning is emitted, for every entity order, every number of components  *)
(* and also when a relationship target names no entity of the model.       *)
C25_NoWarningWithoutCycle ==
  (pc = "setValid" /\ Acyclic(input.data)) => CycleWarningNames(result) = {}

\* the pass has run on an acyclic model in which a later entity has a
\* followed edge to an earlier one, which the first search has visited and
\* left, and a followed edge to a name that is no entity: no warning
C25_Witness ==
  /\ pc = "setValid"
  /\ Acyclic(input.data)
  /\ result.warnings = <<>>
  /\ \E a, b \in 1..Len(EntitiesOf(input.data)) :
       /\ a < b
       /\ EntitiesOf(input.data)[a].name # EntitiesOf(input.data)[b].name
       /\ LinkedBy(input.data, b, a, {"manyToOne"})
       /\ \E ef \in FieldsIn(input.data) :
            LET rel == FieldAt(input.data, ef).relationship
            IN /\ ef[1] = b
               /\ rel.type = "manyToOne"
               /\ rel.target \notin EntityNamesIn(input.data)

(* C26: the backend generator's file list never contains two entries with  *)
(* the same path, for every model accepted by validation and every feature *)
(* configuration: no entity's files collide with another entity's files or *)
(* with the app, config and auth scaffolding.                              *)
C26_FilePathsAreDistinct ==
  BackendDone =>
    \A i, j \in 1..Len(backend.result.files) :
      i # j => backend.result.files[i].path # backend.result.files[j].path

(* C27: REST routes agree across generators: for every entity the          *)
(* collection path of the OpenAPI document, '/' + lower-cased entity name  *)
(* + 's', equals '/' followed by the route of the generated backend        *)
(* controller.                                                             *)
C27_RoutesAgree ==
  (BackendDone /\ openapi.returned /\ openapi.result.success) =>
    \A e \in 1..Len(EntitiesOf(input.data)) :
      LET collection == <<"/">> \o toLowerCase(EntitiesOf(input.data)[e].name) \o <<"s">>
      IN /\ collection \in DOMAIN openapi.spec.paths
         /\ collection = <<"/">> \o backend.spec[e].controller.route

\* the schemas that the properties of a schema and the schema itself refer to
SchemaRefs(schema) ==
  schema.refs \cup
  {schema.properties[k].ref.value :
     k \in {p \in DOMAIN schema.properties : schema.properties[p].ref.present}}

\* every $ref of the OpenAPI document points into the document
OpenAPIRefsResolve(spec) ==
  /\ \A k \in DOMAIN spec.schemas : SchemaRefs(spec.schemas[k]) \subseteq DOMAIN spec.schemas
  /\ \A r \in DOMAIN spec.responses : spec.responses[r] \in DOMAIN spec.schemas
  /\ \A p \in DOMAIN spec.paths :
       \A o \in 1..Len(spec.paths[p].operations) :
         LET operation == spec.paths[p].operations[o]
         IN /\ operation.requestRef.present =>
                 operation.requestRef.value \in DOMAIN spec.schemas
            /\ Range(operation.responseRefs) \subseteq DOMAIN spec.schemas
            /\ operation.responses \subseteq DOMAIN spec.responses

\* every $ref of the AsyncAPI document points into the document
AsyncAPIRefsResolve(spec) ==
  /\ \A k \in DOMAIN spec.schemas : SchemaRefs(spec.schemas[k]) \subseteq DOMAIN spec.schemas
  /\ \A c \in DOMAIN spec.channels : spec.channels[c].message \in DOMAIN spec.messages
  /\ \A m \in DOMAIN spec.messages :
       /\ spec.messages[m].traits \subseteq spec.messageTraits
       /\ spec.messages[m].payload.present =>
            spec.messages[m].payload.value \in DOMAIN spec.schemas

(* C28: referential integrity of the generated documents: every $ref of    *)
(* the finished OpenAPI document (entity schemas, DTOs, PaginationMeta,    *)
(* ErrorResponse, shared responses) and of the finished AsyncAPI document  *)
(* (messages, event schemas, EventMetadata, the commonHeaders trait,       *)
(* HealthCheckMessage) points to a component that exists in that same      *)
(* document, for every model and configuration.                            *)
C28_EveryRefResolves ==
  /\ (openapi.returned /\ openapi.result.success) => OpenAPIRefsResolve(openapi.spec)
  /\ (asyncapi.returned /\ asyncapi.result.success) => AsyncAPIRefsResolve(asyncapi.spec)

\* both documents of a model of two entities are finished: the operations
\* refer to schemas and shared responses, the channels to messages, the
\* messages to the trait and to event schemas that refer to EventMetadata
C28_Witness ==
  /\ openapi.returned /\ openapi.result.success
  /\ asyncapi.returned /\ asyncapi.result.success
  /\ Len(EntitiesOf(input.data)) = 2
  /\ \E p \in DOMAIN openapi.spec.paths :
       \E o \in 1..Len(openapi.spec.paths[p].operations) :
         /\ openapi.spec.paths[p].operations[o].requestRef.present
         /\ openapi.spec.paths[p].operations[o].responses # {}
  /\ Cardinality(DOMAIN asyncapi.spec.channels) = 7
  /\ \E m \in DOMAIN asyncapi.spec.messages :
       /\ asyncapi.spec.messages[m].traits # {}
       /\ asyncapi.spec.messages[m].payload.present
       /\ asyncapi.spec.schemas[asyncapi.spec.messages[m].payload.value].refs # {}

(***************************************************************************)
(* The steps of generateAll (cli/commands/sample.ts).                      *)
(***************************************************************************)
GenerateAll ==
  /\ options.command = "generate"
  /\ toLowerCase(options.type) = <<"a", "l", "l">>
  /\ ~options.dryRun

\* generate() of the generator returned with success = true / false
Succeeded(run) == run.returned /\ run.result.success

Failed(run) == run.returned /\ ~run.result.success

IsPrefix(s, t) == Len(s) <= Len(t) /\ SubSeq(t, 1, Len(s)) = s

\* the files a generator step writes under dir once its generator succeeded
StepFiles(run, dir) ==
  IF Succeeded(run) THEN WrittenUnder(dir, run.result.files) ELSE <<>>

GeneratorStepFiles ==
  StepFiles(openapi, <<"s", "p", "e", "c", "s", "/">>) \o StepFiles(asyncapi, <<"s", "p", "e", "c", "s", "/">>) \o StepFiles(backend, <<"b", "a", "c", "k", "e", "n", "d", "/">>)

DockerStepFiles ==
  IF config.features.present /\ config.features.docker
    THEN <<<<"D", "o", "c", "k", "e", "r", "f", "i", "l", "e">>, <<"d", "o", "c", "k", "e", "r", "-", "c", "o", "m", "p", "o", "s", "e", ".", "y", "m", "l">>, <<".", "d", "o", "c", "k", "e", "r", "i", "g", "n", "o", "r", "e">>>>
    ELSE <<>>

\* C29: in 'generate all' the steps run in the order OpenAPI, AsyncAPI (only
\* if features.asyncapi), backend, docker (only if features.docker): the
\* AsyncAPI generator runs only after the OpenAPI files are written and only
\* with the feature on, the backend generator only after the specs step is
\* complete, the docker files come only after the backend files, and the
\* written files are at every moment a prefix of that order; the command
\* succeeds only with every due step done.  A generator that reported
\* success = false aborts the command: once its result is read the command is
\* in its catch block, no later generator has run, and the written files are
\* exactly those of the steps that succeeded before it.
C29_StepsInOrderAndFailureAborts ==
  GenerateAll =>
    /\ asyncapi.returned =>
         /\ Succeeded(openapi) /\ config.features.asyncapi
         /\ IsPrefix(StepFiles(openapi, <<"s", "p", "e", "c", "s", "/">>), written)
    /\ backend.returned =>
         /\ Succeeded(openapi)
         /\ config.features.asyncapi <=> Succeeded(asyncapi)
         /\ IsPrefix(StepFiles(openapi, <<"s", "p", "e", "c", "s", "/">>) \o StepFiles(asyncapi, <<"s", "p", "e", "c", "s", "/">>), written)
    /\ IsPrefix(written, GeneratorStepFiles \o DockerStepFiles)
    /\ Len(written) > Len(GeneratorStepFiles) => Succeeded(backend)
    /\ pc \in {"succeed", "succeeded"} =>
         /\ Succeeded(backend)
         /\ written = GeneratorStepFiles \o DockerStepFiles
    /\ \A step \in {<<openapi, "openapiReturned", <<asyncapi, backend>>>>,
                    <<asyncapi, "asyncapiReturned", <<backend>>>>,
                    <<backend, "backendReturned", <<>>>>} :
         Failed(step[1]) =>
           /\ pc \in {step[2], "catch", "rejected"}
           /\ \A i \in 1..Len(step[3]) : ~step[3][i].returned /\ ~step[3][i].rejected
           /\ written = GeneratorStepFiles

\* 'generate all' with every feature on ended in the catch block because the
\* backend generator reported success = false: the four specification files
\* are written, no backend file and no docker file is
C29_Witness ==
  /\ GenerateAll
  /\ pc = "rejected"
  /\ Failed(backend)
  /\ Succeeded(asyncapi)
  /\ config.features.docker
  /\ Len(written) = 4
  /\ written = StepFiles(openapi, <<"s", "p", "e", "c", "s", "/">>) \o StepFiles(asyncapi, <<"s", "p", "e", "c", "s", "/">>)

(***************************************************************************)
(* ValidateCommand.execute as a whole: validateConfig on the file          *)
(* options.config names, then validateDataModel, then the exit code.       *)
(***************************************************************************)
OptionalStrings(values) == {None} \cup {Some(v) : v \in values}

ConfigDocuments ==
  {ConfigDocument(kind, None, None, FALSE, None) : kind \in {"missing", "malformed", "null"}} \cup
  {ConfigDocument("object", project, database, features, github) :
     project \in {None} \cup
       {Some([name |-> name, version |-> version]) :
          name \in OptionalStrings({<<>>, <<"s", "h", "o", "p">>}),
          version \in OptionalStrings({<<"1", ".", "0", ".", "0">>, <<"1", "0", ".", "2", ".", "3", "3">>, <<"1", ".", "0">>, <<"v", "1", ".", "0", ".", "0">>, <<"1", ".", ".", "0">>})},
     database \in {None} \cup
       {Some([type |-> type]) : type \in OptionalStrings({<<>>, <<"p", "o", "s", "t", "g", "r", "e", "s", "q", "l">>, <<"s", "q", "l", "i", "t", "e">>, <<"o", "r", "a", "c", "l", "e">>})},
     features \in BOOLEAN,
     github \in {None} \cup {Some([owner |-> owner]) : owner \in OptionalStrings({<<"a", "c", "m", "e">>})}}

\* a configuration without errors and without a features section
ConfigWithoutFeatures ==
  ConfigDocument("object", Some([name |-> Some(<<"s", "h", "o", "p">>), version |-> Some(<<"1", ".", "0", ".", "0">>)]),
                 Some([type |-> Some(<<"p", "o", "s", "t", "g", "r", "e", "s", "q", "l">>)]), FALSE, None)

ExecuteInput ==
  \/ /\ config \in ConfigDocuments
     /\ \E file \in {File(FALSE, ".json", TRUE, generateSample),
                     File(TRUE, ".json", FALSE, generateSample),
                     File(TRUE, ".txt", TRUE, generateSample),
                     File(TRUE, ".json", TRUE, generateSample),
                     File(TRUE, ".yaml", TRUE, StrictDoc)} : input = file
  \/ /\ InitInput
     /\ config = ConfigWithoutFeatures

ExecuteInit ==
  /\ ExecuteInput
  /\ strict \in BOOLEAN
  /\ pc = "validateConfig"
  /\ calls = <<>>
  /\ loaderErrors = <<>>
  /\ thrown = NoError
  /\ result = NoResult
  /\ configResult = NoResult
  /\ options = Options("validate", <<>>, FALSE)
  /\ GeneratorsIdle

ExecuteSpec == ExecuteInit /\ [][ExecuteNext]_vars

\* C30: once validateConfig has returned, results.config is valid exactly
\* when its error list is empty, and once validateDataModel has returned,
\* results.model is valid exactly when its error list is empty, whichever
\* way the validation ended (file missing, exception caught, all checks
\* run); warnings, present or not, make no difference.
C30_ValidIffNoErrors ==
  options.command = "validate" =>
    /\ pc # "validateConfig" =>
         (configResult.valid <=> configResult.errors = <<>>)
    /\ pc \in {"done", "exited", "returned"} =>
         (result.valid <=> result.errors = <<>>)

\* execute returned without exit code: both documents are valid although
\* both validations pushed warnings
C30_Witness ==
  /\ options.command = "validate"
  /\ pc = "returned"
  /\ configResult.valid /\ configResult.warnings # <<>>
  /\ result.valid /\ result.warnings # <<>>

====
